---- MODULE Spec2Model ----
(***************************************************************************)
(* A model of the numerical core of panim (panim/core.py and               *)
(* panim/resonator.py): wave_vector, compute_spectral_field, calc_pulses   *)
(* and resonator_modes, called one after another by a single-threaded      *)
(* caller.                                                                 *)
(*                                                                         *)
(* Numbers.  A real number is an exact rational <<n, d>> with d > 0 in     *)
(* lowest terms; +, -, * and / are exact, so floating-point rounding is    *)
(* not modelled.  np.pi is the rational 22/7.  np.sin and the exponential  *)
(* of scipy's Gaussian window are library functions; they are modelled by  *)
(* rational approximations (a 24-point table of the sine, 1/(1+x+x^2/2)    *)
(* for exp(-x)) that keep their period, sign, symmetry and monotonicity.   *)
(*                                                                         *)
(* Arrays.  A one-dimensional array is a sequence of reals.  A             *)
(* two-dimensional array is a record [shape |-> <<r, c>>, rows |-> s]      *)
(* where s is a sequence of r sequences of length c, so that the shape     *)
(* (0, c) of an array without rows is kept.                                *)
(***************************************************************************)
EXTENDS Integers, Sequences, FiniteSets, TLC

----------------------------------------------------------------------------
(* Exact rational arithmetic *)

Abs(n) == IF n < 0 THEN -n ELSE n

RECURSIVE GCD(_, _)
GCD(a, b) == IF b = 0 THEN a ELSE GCD(b, a % b)

Norm(n, d) ==
    LET g == GCD(Abs(n), d)
    IN  IF n = 0 THEN <<0, 1>> ELSE <<n \div g, d \div g>>

R(n) == <<n, 1>>

Zero == <<0, 1>>

One == <<1, 1>>

Neg(a) == <<-a[1], a[2]>>

Add(a, b) ==
    LET g == GCD(a[2], b[2])
        l == (a[2] \div g) * b[2]
    IN  Norm(a[1] * (b[2] \div g) + b[1] * (a[2] \div g), l)

Sub(a, b) == Add(a, Neg(b))

Mul(a, b) ==
    IF a[1] = 0 \/ b[1] = 0 THEN Zero
    ELSE LET g1 == GCD(Abs(a[1]), b[2])
             g2 == GCD(Abs(b[1]), a[2])
         IN  <<(a[1] \div g1) * (b[1] \div g2), (a[2] \div g2) * (b[2] \div g1)>>

Inv(a) == IF a[1] < 0 THEN <<-a[2], -a[1]>> ELSE <<a[2], a[1]>>

Div(a, b) == Mul(a, Inv(b))

Less(a, b) == Sub(a, b)[1] < 0

RECURSIVE Pow(_, _)
Pow(a, e) == IF e = 0 THEN One ELSE Mul(a, Pow(a, e - 1))

Scale(a, v) == [j \in 1..Len(v) |-> Mul(a, v[j])]

----------------------------------------------------------------------------
(* Library functions used by the core: numpy and scipy.signal.windows *)

Pi == <<22, 7>>

TwoPi == Mul(R(2), Pi)

(* np.sin at the 15-degree points of the first quadrant, in thousandths *)
SinQuadrant == <<0, 259, 500, 707, 866, 966, 1000>>

SinSteps == 4 * (Len(SinQuadrant) - 1)

SinIdx(i) ==
    LET half == SinSteps \div 2
        h    == i % half
        v    == IF 2 * h <= half THEN SinQuadrant[h + 1]
                ELSE SinQuadrant[half - h + 1]
    IN  Norm(IF i < half THEN v ELSE -v, 1000)

(* np.sin: the argument is reduced modulo 2*pi and rounded to the nearest  *)
(* of the tabulated points                                                 *)
Sin(x) ==
    LET turns == Div(x, TwoPi)
        f     == turns[1] % turns[2]
        i     == ((2 * SinSteps * f + turns[2]) \div (2 * turns[2])) % SinSteps
    IN  SinIdx(i)

(* np.exp(-x) for x >= 0: x is rounded down to hundredths and the value    *)
(* 1/(1 + x + x^2/2) is rounded down to thousandths                        *)
ExpNeg(x) ==
    LET q == (100 * x[1]) \div x[2]
    IN  IF q > 10000 THEN Zero
        ELSE Norm(20000000 \div (20000 + 200 * q + q * q), 1000)

Zeros(n) == [j \in 1..n |-> Zero]

Ones(n) == [j \in 1..n |-> One]

(* np.zeros((r, m)) *)
Zeros2(r, m) == [shape |-> <<r, m>>, rows |-> [i \in 1..r |-> Zeros(m)]]

(* np.linspace(start, stop, num), endpoint included *)
(* a grid that is never empty: a request for no point gives one *)
LinspaceAtLeastOne(start, stop, num) ==
    LET n     == IF num = 0 THEN 1 ELSE num
        div   == n - 1
        delta == Sub(stop, start)
        step  == Div(delta, R(div))
    IN  [j \in 1..n |->
            IF n > 1 /\ j = n THEN stop
            ELSE IF div > 0 THEN Add(Mul(R(j - 1), step), start)
            ELSE Add(Mul(R(j - 1), delta), start)]

Linspace(start, stop, num) ==
    LET div   == num - 1
        delta == Sub(stop, start)
        step  == Div(delta, R(div))
    IN  [j \in 1..num |->
            IF num > 1 /\ j = num THEN stop
            ELSE IF div > 0 THEN Add(Mul(R(j - 1), step), start)
            ELSE Add(Mul(R(j - 1), delta), start)]

(* a window centred at index M/2 instead of (M-1)/2 *)
gaussianOffCentre(M, std) ==
    IF M <= 1 THEN Ones(M)
    ELSE LET sig2 == Mul(Mul(R(2), std), std)
             n(j) == Sub(R(j - 1), <<M, 2>>)
         IN  [j \in 1..M |-> ExpNeg(Div(Pow(n(j), 2), sig2))]

(* scipy.signal.windows.gaussian(M, std), symmetric *)
gaussian(M, std) ==
    IF M <= 1 THEN Ones(M)
    ELSE LET sig2 == Mul(Mul(R(2), std), std)
             n(j) == Sub(R(j - 1), <<M - 1, 2>>)
         IN  [j \in 1..M |-> ExpNeg(Div(Pow(n(j), 2), sig2))]

(* ndarray.max() and ndarray.min() of a non-empty array *)
RECURSIVE ArrMax(_)
ArrMax(v) ==
    IF Len(v) = 1 THEN v[1]
    ELSE LET m == ArrMax(Tail(v)) IN IF Less(m, v[1]) THEN v[1] ELSE m

RECURSIVE ArrMin(_)
ArrMin(v) ==
    IF Len(v) = 1 THEN v[1]
    ELSE LET m == ArrMin(Tail(v)) IN IF Less(v[1], m) THEN v[1] ELSE m

(* a.sum(axis=1): one entry per row *)
RECURSIVE RowSum(_, _)
RowSum(row, m) == IF m = 0 THEN Zero ELSE Add(RowSum(row, m - 1), row[m])

SumAxis1(a) == [i \in 1..a.shape[1] |-> RowSum(a.rows[i], a.shape[2])]

(* a.sum(axis=0) of a two-dimensional array *)
(* the entries of column j in rows lo..hi, added up by halves: the sum of  *)
(* exact fractions does not depend on the order of the additions           *)
RECURSIVE ColSumBetween(_, _, _, _)
ColSumBetween(rows, lo, hi, j) ==
    IF lo > hi THEN Zero
    ELSE IF lo = hi THEN rows[lo][j]
    ELSE LET mid == (lo + hi) \div 2
         IN  Add(ColSumBetween(rows, lo, mid, j), ColSumBetween(rows, mid + 1, hi, j))

ColSum(rows, r, j) == ColSumBetween(rows, 1, r, j)

SumAxis0(a) == [j \in 1..a.shape[2] |-> ColSum(a.rows, a.shape[1], j)]

(* a[i, :] = row, with i counted from 0 *)
SetRow(a, i, row) == [a EXCEPT !.rows[i + 1] = row]

----------------------------------------------------------------------------
(* Bounds and the inputs the caller draws from *)

(* largest n_frequencies of a direct compute_spectral_field call *)
MaxFreq == 3

(* largest n_steps of a calc_pulses call *)
MaxSteps == 2

(* largest n_modes of a resonator_modes call *)
MaxModes == 3

(* number of states of the external random source *)
RngPeriod == 2

(* an argument that is not supplied, and the value None *)
Missing == <<0, 0>>

None == <<Missing>>

(* the empty axis, two increasing axes and one that is not monotonic *)
ZAxes ==
    { <<>>, <<R(1), R(2)>>, <<R(0), <<1, 2>>, R(2)>>, <<R(1), R(0), R(2)>> }

(* a two-dimensional array passed as the spatial axis, of shape (2, 3) *)
Grid2D == << <<R(0), R(1), R(2)>>, <<R(1), R(2), R(3)>> >>

Times == { R(0), R(1), <<1, 2>> }

Centers == { R(1), R(2) }

Widths == { R(1), R(200) }

Lists ==
    { None, <<>>, <<R(2)>>, <<R(1), R(5)>>, <<R(1), R(5), R(0)>>,
      <<R(1), R(5), R(0), R(0)>>, <<R(1), R(0), R(1), R(1)>>, <<R(0), R(1), R(0), R(0), R(3)>> }

(* coefficient lists without a quadratic or cubic term *)
LinearLists == { k \in Lists : k = None \/ \A j \in 3..Len(k) : j > 4 \/ k[j] = Zero }

WvArgs ==
    [ nu        : { R(1), R(2), <<3, 2>>, <<>>, <<<<1, 2>>, R(1), <<3, 2>>>> },
      nu_center : Centers,
      k         : { <<Missing, Missing, Missing, Missing>>,
                    <<R(5), Missing, Missing, Missing>>,
                    <<R(0), R(5), Missing, Missing>>,
                    <<R(0), R(10), Missing, Missing>>,
                    <<R(1), R(10), R(5), Missing>>,
                    <<Missing, R(0), Missing, R(2)>>,
                    <<R(3), R(2), R(1), R(1)>> } ]

(* the axis of the origin alone *)
Origin == << R(0) >>

CsfArgs ==
    [ z : ZAxes \cup {Grid2D, Origin}, t : Times, nu_center : Centers,
      nu_min : { R(0), R(1), R(2) },
      n_frequencies : 0..MaxFreq, spec_width : Widths, k_coefficients : Lists ]

(* the spectral parameters of compute_spectral_field that the signature of *)
(* calc_pulses does not declare                                            *)
UndeclaredKeywords == { "nu_min", "n_frequencies" }

(* unexpected: the undeclared keywords the caller passes a value for *)
CpArgs ==
    [ z : ZAxes \cup {Grid2D}, t_start : { R(0), R(1) },
      t_end : { R(1), <<3, 2>> },
      n_steps : 0..MaxSteps, nu_center : { R(1) }, k_i : LinearLists,
      spec_width : Widths, show_progress : BOOLEAN,
      unexpected : SUBSET UndeclaredKeywords ]

RmArgs ==
    [ t : Times, z : ZAxes, n_modes : 0..MaxModes, random_phases : BOOLEAN ]

----------------------------------------------------------------------------
(* panim/core.py *)

(* speed of light, normalized *)
c == One

IsScalar(x) == Len(x) = 2 /\ x[1] \in Int

(* a one-dimensional array: every entry is a number *)
Is1D(z) == \A j \in 1..Len(z) : IsScalar(z[j])

(* the exponent of every term one too high *)
TermOneHigher(k, delta_omega, n) ==
    IF k = Zero THEN Zero ELSE Mul(k, Pow(delta_omega, n + 1))

(* one term k_n * delta_omega**n; a zero coefficient gives zero *)
Term(k, delta_omega, n) ==
    IF k = Zero THEN Zero ELSE Mul(k, Pow(delta_omega, n))

(* the expansion taken around frequency 0 instead of nu_center *)
wave_vector_uncentered(nu, nu_center, k_0, k_1, k_2, k_3) ==
    LET delta_omega == Mul(TwoPi, nu)
    IN  Add(Add(Add(k_0, Mul(k_1, delta_omega)),
                Mul(k_2, Pow(delta_omega, 2))),
            Mul(k_3, Pow(delta_omega, 3)))

wave_vector_at(nu, nu_center, k_0, k_1, k_2, k_3) ==
    LET omega       == Mul(TwoPi, nu)
        omega_0     == Mul(TwoPi, nu_center)
        delta_omega == Sub(omega, omega_0)
    IN  Add(Add(Add(k_0, Term(k_1, delta_omega, 1)),
                Term(k_2, delta_omega, 2)),
            Term(k_3, delta_omega, 3))

(* numpy broadcasts the arithmetic over an array nu *)
wave_vector(nu, nu_center, k_0, k_1, k_2, k_3) ==
    IF IsScalar(nu) THEN wave_vector_at(nu, nu_center, k_0, k_1, k_2, k_3)
    ELSE [j \in 1..Len(nu) |->
            wave_vector_at(nu[j], nu_center, k_0, k_1, k_2, k_3)]

(* the defaults of compute_spectral_field's list taken for wave_vector's *)
wave_vector_defaults_of_field == <<R(1), R(5), R(0), R(0)>>

(* the defaults of wave_vector's keyword arguments *)
wave_vector_defaults == <<R(1), R(0), R(0), R(0)>>

Bind(supplied, defaults) ==
    [j \in 1..Len(defaults) |->
        IF supplied[j] = Missing THEN defaults[j] ELSE supplied[j]]

(* defaults of compute_spectral_field's keyword arguments *)
nu_min_default == <<1, 1000>>

(* the number of frequency samples of a call that leaves n_frequencies at   *)
(* its default (4000 in the source); a bound of the model                  *)
n_frequencies_default == 3

(* a default without the linear term *)
k_coefficients_default_flat == <<R(1), R(0), R(0)>>

(* lines 115-116 and 182-183: the coefficients used when none are given *)
k_coefficients_default == <<R(1), R(5), R(0)>>

----------------------------------------------------------------------------
(* The state *)

VARIABLES
    pc,       \* "idle", "csf", "cp", "rm", "done" or "raised"
    fn,       \* the function the caller called
    args,     \* its arguments
    csf,      \* the frame (local variables) of compute_spectral_field
    cp,       \* the frame of calc_pulses
    rm,       \* the frame of resonator_modes; a frame stays readable after
              \* the return, until the caller's next call
    result,   \* the value returned to the caller
    error,    \* the exception raised in the call, if one was
    rng,      \* the state of the external random source (np.random)
    kept,     \* an earlier call and its result, kept by the caller
    workers,  \* the loop iterations handed to independent workers
    anim,     \* the frame of an animation or plotting function
    saved     \* the files written by anim.save, in order

vars == <<pc, fn, args, csf, cp, rm, result, error, rng, kept, workers, anim, saved>>

(* what the numerical core never touches *)
display == <<workers, anim, saved>>

NoFrame == [live |-> FALSE]

NoResult == [none |-> TRUE]

NoError == [kind |-> "none", step |-> 0]

NoCall == [fn |-> "none", rng |-> 0]

Idle == pc = "idle"

(* f can be called: no call is in progress, and a caller that has kept a   *)
(* result goes on to compare it with calls of the same function            *)
Ready(f) == Idle /\ kept.fn \in {"none", f}

Init ==
    /\ pc = "idle"
    /\ fn = "none"
    /\ args = NoResult
    /\ csf = NoFrame
    /\ cp = NoFrame
    /\ rm = NoFrame
    /\ result = NoResult
    /\ error = NoError
    /\ rng = 0
    /\ kept = NoCall
    /\ workers = << >>
    /\ anim = NoFrame
    /\ saved = << >>

----------------------------------------------------------------------------
(* wave_vector, called by the user; keyword arguments not supplied take    *)
(* their defaults                                                          *)

CallWaveVector ==
    /\ Ready("wave_vector")
    /\ \E a \in WvArgs :
        LET k == Bind(a.k, wave_vector_defaults)
        IN  /\ fn' = "wave_vector"
            /\ args' = a
            /\ result' = wave_vector(a.nu, a.nu_center, k[1], k[2], k[3], k[4])
    /\ pc' = "done"
    /\ csf' = NoFrame
    /\ cp' = NoFrame
    /\ rm' = NoFrame
    /\ UNCHANGED <<error, rng, kept>>
    /\ UNCHANGED display

----------------------------------------------------------------------------
(* compute_spectral_field *)

(* lines 115-126: the state of the call on entry to the loop *)
(* the grid ends at the center frequency instead of twice the center frequency *)
CsfEnterNoDouble(caller, z, t, nu_center, nu_min, n_frequencies, spec_width, k_coefficients) ==
    LET kc          == IF k_coefficients = None THEN k_coefficients_default
                       ELSE k_coefficients
        k_i         == kc \o Zeros(4 - Len(kc))
        frequencies == Linspace(nu_min, nu_center, n_frequencies)
        spectrum    == gaussian(Len(frequencies), spec_width)
    IN  [ live |-> TRUE, caller |-> caller, z |-> z, t |-> t,
          nu_center |-> nu_center, nu_min |-> nu_min,
          n_frequencies |-> n_frequencies, spec_width |-> spec_width,
          k_i |-> k_i,
          frequencies |-> frequencies, spectrum |-> spectrum,
          E_field_components |-> Zeros2(Len(frequencies), Len(z)),
          i |-> 0 ]

(* lines 115-126: defaults, padding, frequency grid, envelope, components *)
CsfEnter(caller, z, t, nu_center, nu_min, n_frequencies, spec_width, k_coefficients) ==
    LET kc          == IF k_coefficients = None THEN k_coefficients_default
                       ELSE k_coefficients
        k_i         == kc \o Zeros(4 - Len(kc))
        frequencies == Linspace(nu_min, Mul(nu_center, R(2)), n_frequencies)
        spectrum    == gaussian(Len(frequencies), spec_width)
    IN  [ live |-> TRUE, caller |-> caller, z |-> z, t |-> t,
          nu_center |-> nu_center, nu_min |-> nu_min,
          n_frequencies |-> n_frequencies, spec_width |-> spec_width,
          k_i |-> k_i,
          frequencies |-> frequencies, spectrum |-> spectrum,
          E_field_components |-> Zeros2(Len(frequencies), Len(z)),
          i |-> 0 ]

(* the spatial phase added instead of subtracted *)
ComponentPlusPhi(f, i) ==
    LET freq == f.frequencies[i + 1]
        k    == SubSeq(f.k_i, 1, 4)
        phi  == Scale(wave_vector(freq, f.nu_center, k[1], k[2], k[3], k[4]),
                      f.z)
    IN  [j \in 1..Len(f.z) |->
            Mul(f.spectrum[i + 1],
                Sin(Add(Mul(Mul(TwoPi, freq), f.t), phi[j])))]

(* the wave vector left out of the phase: phi = z *)
ComponentNoDispersion(f, i) ==
    LET freq == f.frequencies[i + 1]
        phi  == f.z
    IN  [j \in 1..Len(f.z) |->
            Mul(f.spectrum[i + 1],
                Sin(Sub(Mul(Mul(TwoPi, freq), f.t), phi[j])))]

(* lines 129-130: the component of frequency number i (from 0) *)
Component(f, i) ==
    LET freq == f.frequencies[i + 1]
        k    == SubSeq(f.k_i, 1, 4)
        phi  == Scale(wave_vector(freq, f.nu_center, k[1], k[2], k[3], k[4]),
                      f.z)
    IN  [j \in 1..Len(f.z) |->
            Mul(f.spectrum[i + 1],
                Sin(Sub(Mul(Mul(TwoPi, freq), f.t), phi[j])))]

CallComputeSpectralField ==
    /\ Ready("compute_spectral_field")
    /\ \E a \in CsfArgs :
        /\ fn' = "compute_spectral_field"
        /\ args' = a
        /\ csf' = CsfEnter("user", a.z, a.t, a.nu_center, a.nu_min,
                           a.n_frequencies, a.spec_width, a.k_coefficients)
    /\ pc' = "csf"
    /\ result' = NoResult
    /\ cp' = NoFrame
    /\ rm' = NoFrame
    /\ UNCHANGED <<error, rng, kept>>
    /\ UNCHANGED display

(* calc_pulses catching the error of a step and going on with the next *)
CsfRaiseSwallowed ==
    /\ pc = "csf"
    /\ csf.i < Len(csf.frequencies)
    /\ ~Is1D(csf.z)
    /\ error' = [kind |-> "ValueError",
                 step |-> IF csf.caller = "calc_pulses" THEN cp.i ELSE 0]
    /\ csf' = NoFrame
    /\ IF csf.caller = "calc_pulses"
       THEN /\ pc' = "cp"
            /\ cp' = [cp EXCEPT !.i = @ + 1]
       ELSE /\ pc' = "raised"
            /\ cp' = cp
    /\ UNCHANGED <<fn, args, rm, result, rng, kept>>
    /\ UNCHANGED display

(* line 130 with a two-dimensional z: the right-hand side has the shape of *)
(* z and cannot be stored in a row of len(z) entries; numpy raises         *)
(* ValueError, which nothing catches                                       *)
CsfRaise ==
    /\ pc = "csf"
    /\ csf.i < Len(csf.frequencies)
    /\ ~Is1D(csf.z)
    /\ pc' = "raised"
    /\ error' = [kind |-> "ValueError",
                 step |-> IF csf.caller = "calc_pulses" THEN cp.i ELSE 0]
    /\ csf' = NoFrame
    /\ UNCHANGED <<fn, args, cp, rm, result, rng, kept>>
    /\ UNCHANGED display

(* the phase computed in place, in the caller's array: z *= k *)
CsfStepInPlace ==
    /\ pc = "csf"
    /\ csf.i < Len(csf.frequencies)
    /\ Is1D(csf.z)
    /\ csf' = [csf EXCEPT
                 !.E_field_components = SetRow(@, csf.i, Component(csf, csf.i)),
                 !.z = Scale(wave_vector(csf.frequencies[csf.i + 1],
                                         csf.nu_center, csf.k_i[1], csf.k_i[2],
                                         csf.k_i[3], csf.k_i[4]), csf.z),
                 !.i = @ + 1]
    /\ args' = [args EXCEPT !.z = csf'.z]
    /\ UNCHANGED <<pc, fn, cp, rm, result, error, rng, kept>>
    /\ UNCHANGED display

CsfStep ==
    /\ pc = "csf"
    /\ csf.i < Len(csf.frequencies)
    /\ Is1D(csf.z)
    /\ csf' = [csf EXCEPT
                 !.E_field_components = SetRow(@, csf.i, Component(csf, csf.i)),
                 !.i = @ + 1]
    /\ UNCHANGED <<pc, fn, args, cp, rm, result, error, rng, kept>>
    /\ UNCHANGED display

CsfReturn ==
    /\ pc = "csf"
    /\ csf.i = Len(csf.frequencies)
    /\ csf.caller = "user"
    /\ result' = SumAxis0(csf.E_field_components)
    /\ pc' = "done"
    /\ UNCHANGED <<fn, args, csf, cp, rm, error, rng, kept>>
    /\ UNCHANGED display

----------------------------------------------------------------------------
(* calc_pulses *)

(* one row too many in the output array *)
CpEnterExtraRow(a) ==
    LET k_i   == IF a.k_i = None THEN k_coefficients_default ELSE a.k_i
        z_arr == a.z
        times == Linspace(a.t_start, a.t_end, a.n_steps)
    IN  [ live |-> TRUE, z_arr |-> z_arr, times |-> times, k_i |-> k_i,
          n_steps |-> a.n_steps, nu_center |-> a.nu_center,
          spec_width |-> a.spec_width, show_progress |-> a.show_progress,
          pulses |-> Zeros2(a.n_steps + 1, Len(z_arr)),
          i |-> 0, calls |-> 0, progress |-> 0 ]

(* lines 182-189 *)
CpEnter(a) ==
    LET k_i   == IF a.k_i = None THEN k_coefficients_default ELSE a.k_i
        z_arr == a.z
        times == Linspace(a.t_start, a.t_end, a.n_steps)
    IN  [ live |-> TRUE, z_arr |-> z_arr, times |-> times, k_i |-> k_i,
          n_steps |-> a.n_steps, nu_center |-> a.nu_center,
          spec_width |-> a.spec_width, show_progress |-> a.show_progress,
          pulses |-> Zeros2(a.n_steps, Len(z_arr)),
          i |-> 0, calls |-> 0, progress |-> 0 ]

(* lines 136-146: a keyword that is not a parameter makes the call raise   *)
(* TypeError before the body runs                                          *)
CallCalcPulses ==
    /\ Ready("calc_pulses")
    /\ \E a \in CpArgs :
        /\ fn' = "calc_pulses"
        /\ args' = a
        /\ IF a.unexpected = {}
           THEN /\ cp' = CpEnter(a)
                /\ pc' = "cp"
                /\ error' = error
           ELSE /\ cp' = NoFrame
                /\ pc' = "raised"
                /\ error' = [kind |-> "TypeError", step |-> 0]
    /\ result' = NoResult
    /\ csf' = NoFrame
    /\ rm' = NoFrame
    /\ UNCHANGED <<rng, kept>>
    /\ UNCHANGED display

(* every step computed at the first time of the grid *)
CpStepFirstTime ==
    /\ pc = "cp"
    /\ cp.i < cp.n_steps
    /\ csf' = CsfEnter("calc_pulses", cp.z_arr, cp.times[1],
                       cp.nu_center, nu_min_default, n_frequencies_default,
                       cp.spec_width, cp.k_i)
    /\ cp' = [cp EXCEPT !.calls = @ + 1]
    /\ pc' = "csf"
    /\ UNCHANGED <<fn, args, rm, result, error, rng, kept>>
    /\ UNCHANGED display

(* every step computed with the spectral width of the synthesizer's own    *)
(* default instead of the caller's                                         *)
CpStepDefaultWidth ==
    /\ pc = "cp"
    /\ cp.i < cp.n_steps
    /\ csf' = CsfEnter("calc_pulses", cp.z_arr, cp.times[cp.i + 1],
                       cp.nu_center, nu_min_default, n_frequencies_default,
                       R(200), cp.k_i)
    /\ cp' = [cp EXCEPT !.calls = @ + 1]
    /\ pc' = "csf"
    /\ UNCHANGED <<fn, args, rm, result, error, rng, kept>>
    /\ UNCHANGED display

(* lines 190-197: step i calls compute_spectral_field *)
CpStep ==
    /\ pc = "cp"
    /\ cp.i < cp.n_steps
    /\ csf' = CsfEnter("calc_pulses", cp.z_arr, cp.times[cp.i + 1],
                       cp.nu_center, nu_min_default, n_frequencies_default,
                       cp.spec_width, cp.k_i)
    /\ cp' = [cp EXCEPT !.calls = @ + 1]
    /\ pc' = "csf"
    /\ UNCHANGED <<fn, args, rm, result, error, rng, kept>>
    /\ UNCHANGED display

(* line 191: the returned snapshot becomes row i; the progress bar, when   *)
(* shown, advances as the loop moves on                                    *)
CpAssignShownFirstRow ==
    /\ pc = "csf"
    /\ csf.i = Len(csf.frequencies)
    /\ csf.caller = "calc_pulses"
    /\ cp' = [cp EXCEPT
                !.pulses = SetRow(@, IF cp.show_progress THEN 0 ELSE cp.i,
                                  SumAxis0(csf.E_field_components)),
                !.i = @ + 1,
                !.progress = IF cp.show_progress THEN @ + 1 ELSE @]
    /\ csf' = NoFrame
    /\ pc' = "cp"
    /\ UNCHANGED <<fn, args, rm, result, error, rng, kept>>
    /\ UNCHANGED display

CpAssign ==
    /\ pc = "csf"
    /\ csf.i = Len(csf.frequencies)
    /\ csf.caller = "calc_pulses"
    /\ cp' = [cp EXCEPT
                !.pulses = SetRow(@, cp.i, SumAxis0(csf.E_field_components)),
                !.i = @ + 1,
                !.progress = IF cp.show_progress THEN @ + 1 ELSE @]
    /\ csf' = NoFrame
    /\ pc' = "cp"
    /\ UNCHANGED <<fn, args, rm, result, error, rng, kept>>
    /\ UNCHANGED display

CpReturn ==
    /\ pc = "cp"
    /\ cp.i = cp.n_steps
    /\ result' = cp.pulses
    /\ pc' = "done"
    /\ UNCHANGED <<fn, args, csf, cp, rm, error, rng, kept>>
    /\ UNCHANGED display

----------------------------------------------------------------------------
(* panim/resonator.py *)

(* the upper end 200 included in the range of the draws *)
Uniform200Closed(s, n) ==
    [j \in 1..n |-> Norm(200 * (((s + j - 1) % RngPeriod) + 1), RngPeriod)]

(* np.random.uniform(0, 200, n) in state s of the random source: n draws,  *)
(* each in [0, 200), and the state after them                              *)
Uniform200(s, n) ==
    [j \in 1..n |-> Norm(200 * ((s + j - 1) % RngPeriod), RngPeriod)]

RngAfter(s, n) == (s + n) % RngPeriod

(* phases drawn whether or not random_phases is set *)
PhasesAlwaysDrawn(n_modes, random_phases, s) == Uniform200(s, n_modes)

(* lines 73-76 *)
Phases(n_modes, random_phases, s) ==
    IF random_phases THEN Uniform200(s, n_modes) ELSE Zeros(n_modes)

(* one row too many in the output array *)
RmEnterExtraRow(a, s) ==
    LET length      == Sub(ArrMax(a.z), ArrMin(a.z))
        delta_nu    == Div(c, Mul(R(2), length))
        frequencies == [i \in 1..a.n_modes |-> Mul(delta_nu, R(i))]
    IN  [ live |-> TRUE, t |-> a.t, z |-> a.z, n_modes |-> a.n_modes,
          frequencies |-> frequencies,
          phases |-> Phases(a.n_modes, a.random_phases, s),
          drawn |-> IF a.random_phases THEN a.n_modes ELSE 0,
          spectrum |-> Ones(a.n_modes),
          E_modes |-> Zeros2(a.n_modes + 1, Len(a.z)),
          i |-> 0 ]

(* lines 69-82, for a non-empty z *)
RmEnter(a, s) ==
    LET length      == Sub(ArrMax(a.z), ArrMin(a.z))
        delta_nu    == Div(c, Mul(R(2), length))
        frequencies == [i \in 1..a.n_modes |-> Mul(delta_nu, R(i))]
    IN  [ live |-> TRUE, t |-> a.t, z |-> a.z, n_modes |-> a.n_modes,
          frequencies |-> frequencies,
          phases |-> Phases(a.n_modes, a.random_phases, s),
          drawn |-> IF a.random_phases THEN a.n_modes ELSE 0,
          spectrum |-> Ones(a.n_modes),
          E_modes |-> Zeros2(a.n_modes, Len(a.z)),
          i |-> 0 ]

(* the phases left out of the temporal oscillation *)
ModeNoPhase(f, i) ==
    LET omega == Mul(TwoPi, f.frequencies[i + 1])
        k     == Div(omega, c)
    IN  [j \in 1..Len(f.z) |->
            Mul(Mul(f.spectrum[i + 1], Sin(Mul(Mul(R(2), omega), f.t))),
                Sin(Mul(k, f.z[j])))]

(* the temporal oscillation at omega instead of 2*omega *)
ModeNoFactorTwo(f, i) ==
    LET omega == Mul(TwoPi, f.frequencies[i + 1])
        k     == Div(omega, c)
    IN  [j \in 1..Len(f.z) |->
            Mul(Mul(f.spectrum[i + 1],
                    Sin(Sub(Mul(omega, f.t), f.phases[i + 1]))),
                Sin(Mul(k, f.z[j])))]

(* lines 96-98: the field of mode number i (from 0) *)
Mode(f, i) ==
    LET omega == Mul(TwoPi, f.frequencies[i + 1])
        k     == Div(omega, c)
    IN  [j \in 1..Len(f.z) |->
            Mul(Mul(f.spectrum[i + 1],
                    Sin(Sub(Mul(Mul(R(2), omega), f.t), f.phases[i + 1]))),
                Sin(Mul(k, f.z[j])))]

CallResonatorModes ==
    /\ Ready("resonator_modes")
    /\ \E a \in RmArgs :
        /\ fn' = "resonator_modes"
        /\ args' = a
        /\ IF Len(a.z) = 0
           THEN \* z.max() of an empty array raises ValueError
                /\ pc' = "raised"
                /\ error' = [kind |-> "ValueError", step |-> 0]
                /\ rm' = NoFrame
                /\ rng' = rng
           ELSE /\ pc' = "rm"
                /\ error' = error
                /\ rm' = RmEnter(a, rng)
                /\ rng' = IF a.random_phases THEN RngAfter(rng, a.n_modes)
                          ELSE rng
    /\ result' = NoResult
    /\ csf' = NoFrame
    /\ cp' = NoFrame
    /\ UNCHANGED kept
    /\ UNCHANGED display

RmStep ==
    /\ pc = "rm"
    /\ rm.i < rm.n_modes
    /\ rm' = [rm EXCEPT !.E_modes = SetRow(@, rm.i, Mode(rm, rm.i)),
                        !.i = @ + 1]
    /\ UNCHANGED <<pc, fn, args, csf, cp, result, error, rng, kept>>
    /\ UNCHANGED display

RmReturn ==
    /\ pc = "rm"
    /\ rm.i = rm.n_modes
    /\ result' = rm.E_modes
    /\ pc' = "done"
    /\ UNCHANGED <<fn, args, csf, cp, rm, error, rng, kept>>
    /\ UNCHANGED display

----------------------------------------------------------------------------
(* The caller *)

(* the caller takes the result, or catches the error, and goes on *)
Finish ==
    /\ pc \in {"done", "raised"}
    /\ pc' = "idle"
    /\ fn' = "none"
    /\ args' = NoResult
    /\ result' = NoResult
    /\ csf' = NoFrame
    /\ cp' = NoFrame
    /\ rm' = NoFrame
    /\ error' = NoError
    /\ UNCHANGED <<rng, kept>>
    /\ UNCHANGED display

(* the calls whose result the caller may keep to compare a later call with *)
Kept ==
    { a \in CsfArgs : a.z \in { <<R(0), <<1, 2>>, R(2)>>, Origin }
                      /\ a.t = R(1)
                      /\ a.nu_center = R(1) /\ a.nu_min = R(0)
                      /\ a.n_frequencies = 2 /\ a.spec_width = R(1)
                      /\ a.k_coefficients = None }
    \cup
    { a \in CpArgs : a.z = <<R(1), R(2)>> /\ a.t_start = R(0) /\ a.t_end = R(1)
                     /\ a.n_steps = 2 /\ a.nu_center = R(1) /\ a.k_i = None
                     /\ a.spec_width = R(1) /\ ~a.show_progress
                     /\ a.unexpected = {} }
    \cup
    { a \in RmArgs : a.z = <<R(0), <<1, 2>>, R(2)>> /\ a.t = <<1, 2>>
                     /\ a.n_modes = 2 }
    \cup
    { a \in RmArgs : a.z = <<R(1), R(2)>> /\ a.t = <<1, 2>>
                     /\ a.n_modes = 2 /\ a.random_phases }

Keep ==
    /\ pc = "done"
    /\ kept = NoCall
    /\ args \in Kept
    /\ kept' = [fn |-> fn, args |-> args, result |-> result, rng |-> rng,
                phases |-> IF fn = "resonator_modes" THEN rm.phases ELSE <<>>]
    /\ UNCHANGED <<pc, fn, args, csf, cp, rm, result, error, rng>>
    /\ UNCHANGED display

(* np.random.seed(s) *)
Seed ==
    /\ Idle
    /\ \E s \in 0..(RngPeriod - 1) : rng' = s
    /\ UNCHANGED <<pc, fn, args, csf, cp, rm, result, error, kept>>
    /\ UNCHANGED display

Next ==
    \/ CallWaveVector
    \/ CallComputeSpectralField
    \/ CsfStep
    \/ CsfRaise
    \/ CsfReturn
    \/ CallCalcPulses
    \/ CpStep
    \/ CpAssign
    \/ CpReturn
    \/ CallResonatorModes
    \/ RmStep
    \/ RmReturn
    \/ Finish
    \/ Keep
    \/ Seed

Spec == Init /\ [][Next]_vars

----------------------------------------------------------------------------
(* Properties *)

Returned(f) == pc = "done" /\ fn = f

RECURSIVE SeqSum(_)
SeqSum(s) == IF s = <<>> THEN Zero ELSE Add(s[1], SeqSum(Tail(s)))

NonZero(v) == \E j \in 1..Len(v) : v[j] # Zero

(* the coefficients k_0..k_3 a coefficient list stands for *)
Coefficients(kc) ==
    IF kc = None THEN <<R(1), R(5), R(0), R(0)>>
    ELSE [j \in 1..4 |-> IF j <= Len(kc) THEN kc[j] ELSE Zero]

(* the field of one frequency sample at one position *)
PlaneWave(weight, nu, t, k, z_j) ==
    Mul(weight, Sin(Sub(Mul(Mul(TwoPi, nu), t), Mul(k, z_j))))

(* the weighted sum of the plane waves of all N frequency samples *)
Field(z, t, nu_center, nu_min, N, spec_width, kc) ==
    LET K        == Coefficients(kc)
        nu       == Linspace(nu_min, Mul(R(2), nu_center), N)
        envelope == gaussian(N, spec_width)
        k(i)     == wave_vector(nu[i], nu_center, K[1], K[2], K[3], K[4])
    IN  [j \in 1..Len(z) |->
            SeqSum([i \in 1..N |->
                      PlaneWave(envelope[i], nu[i], t, k(i), z[j])])]

(* C1: compute_spectral_field returns, at every position z_j, the sum over *)
(* all N frequency samples i of envelope[i] * sin(2*pi*nu_i*t -            *)
(* k(nu_i)*z_j); no sample is skipped or counted twice.                    *)
C1_FieldIsSumOfAllSamples ==
    Returned("compute_spectral_field") =>
        result = Field(args.z, args.t, args.nu_center, args.nu_min,
                       args.n_frequencies, args.spec_width,
                       args.k_coefficients)

C1_Witness ==
    /\ Returned("compute_spectral_field")
    /\ args.n_frequencies = 3
    /\ Len(args.z) = 3
    /\ args.t # Zero
    /\ Len(args.k_coefficients) = 4
    /\ NonZero(result)

(* the uniform time grid of n points from t_start to t_end inclusive *)
TimeGrid(t_start, t_end, n) ==
    [i \in 1..n |->
        IF n = 1 THEN t_start
        ELSE Add(t_start, Div(Mul(R(i - 1), Sub(t_end, t_start)), R(n - 1)))]

(* C2: for n_steps >= 1, row i of calc_pulses equals                       *)
(* compute_spectral_field(z, T[i]) with the same nu_center, coefficients   *)
(* and spec_width, T being the uniform time grid from t_start to t_end     *)
(* inclusive; rows are in time-grid order and row 0 is the field at        *)
(* t_start.                                                                *)
C2_RowsAreFieldsInTimeOrder ==
    (Returned("calc_pulses") /\ args.n_steps >= 1) =>
        LET T == TimeGrid(args.t_start, args.t_end, args.n_steps)
        IN  /\ cp.times = T
            /\ T[1] = args.t_start
            /\ args.n_steps >= 2 => T[args.n_steps] = args.t_end
            /\ \A i \in 1..args.n_steps :
                 result.rows[i] =
                    Field(args.z, T[i], args.nu_center, nu_min_default,
                          n_frequencies_default, args.spec_width, args.k_i)

C2_Witness ==
    /\ Returned("calc_pulses")
    /\ args.n_steps = 2
    /\ Len(args.z) = 3
    /\ args.t_start # args.t_end
    /\ result.rows[1] # result.rows[2]
    /\ NonZero(result.rows[1])

(* the dispersion polynomial k_0 + k_1*d + k_2*d^2 + k_3*d^3 *)
Polynomial(nu, nu_center, k_0, k_1, k_2, k_3) ==
    LET d == Mul(TwoPi, Sub(nu, nu_center))
    IN  Add(k_0, Add(Mul(k_1, d),
                     Add(Mul(k_2, Mul(d, d)), Mul(k_3, Mul(d, Mul(d, d))))))

(* the coefficients of a wave_vector call: those supplied, else 1, 0, 0, 0 *)
Supplied(a) ==
    [j \in 1..4 |->
        IF a.k[j] # Missing THEN a.k[j] ELSE IF j = 1 THEN R(1) ELSE R(0)]

(* C3: wave_vector returns k_0 + k_1*d + k_2*d^2 + k_3*d^3 with            *)
(* d = 2*pi*(nu - nu_center); coefficients not supplied default to         *)
(* k_0 = 1, k_1 = k_2 = k_3 = 0; for an array of frequencies the result    *)
(* has the same length and element j is the scalar result for nu[j].       *)
C3_WaveVectorIsPolynomial ==
    Returned("wave_vector") =>
        LET K == Supplied(args)
            P(nu) == Polynomial(nu, args.nu_center, K[1], K[2], K[3], K[4])
        IN  IF IsScalar(args.nu) THEN result = P(args.nu)
            ELSE /\ Len(result) = Len(args.nu)
                 /\ \A j \in 1..Len(args.nu) : result[j] = P(args.nu[j])

C3_Witness ==
    /\ Returned("wave_vector")
    /\ ~IsScalar(args.nu)
    /\ Len(args.nu) = 3
    /\ args.k[1] = Missing
    /\ args.k[4] # Missing
    /\ result[1] # result[3]

(* C4: for nu equal to nu_center, wave_vector returns exactly k_0,         *)
(* whatever k_1, k_2 and k_3 are.                                          *)
C4_CenterFrequencyGivesK0 ==
    Returned("wave_vector") =>
        IF IsScalar(args.nu)
        THEN args.nu = args.nu_center => result = Supplied(args)[1]
        ELSE \A j \in 1..Len(args.nu) :
                args.nu[j] = args.nu_center => result[j] = Supplied(args)[1]

C4_Witness ==
    /\ Returned("wave_vector")
    /\ IsScalar(args.nu)
    /\ args.nu = args.nu_center
    /\ args.k[2] \notin {Missing, Zero}
    /\ args.k[3] \notin {Missing, Zero}
    /\ args.k[4] \notin {Missing, Zero}
    /\ result = args.k[1]

(* C5: with k_0 = k_2 = k_3 = 0 wave_vector returns                        *)
(* k_1 * 2*pi*(nu - nu_center), so doubling k_1 doubles the result.        *)
C5_LinearInK1 ==
    (/\ Returned("wave_vector")
     /\ IsScalar(args.nu)
     /\ Supplied(args)[1] = Zero
     /\ Supplied(args)[3] = Zero
     /\ Supplied(args)[4] = Zero) =>
        LET k_1 == Supplied(args)[2]
        IN  /\ result = Mul(k_1, Mul(TwoPi, Sub(args.nu, args.nu_center)))
            /\ wave_vector(args.nu, args.nu_center, Zero, Mul(R(2), k_1),
                           Zero, Zero) = Mul(R(2), result)

C5_Witness ==
    /\ Returned("wave_vector")
    /\ IsScalar(args.nu)
    /\ args.nu # args.nu_center
    /\ args.k[1] = Zero
    /\ args.k[2] = R(5)
    /\ args.k[3] = Missing
    /\ result # Zero

(* a one-dimensional array of n reals *)
IsVector(v, n) == Len(v) = n /\ \A j \in 1..n : IsScalar(v[j])

(* a two-dimensional array of shape (r, m) *)
IsMatrix(a, r, m) ==
    /\ a.shape = <<r, m>>
    /\ Len(a.rows) = r
    /\ \A i \in 1..r : IsVector(a.rows[i], m)

(* C6: compute_spectral_field returns a one-dimensional array with exactly *)
(* len(z) entries, for every z, t, n_frequencies, spec_width and           *)
(* coefficient sequence.                                                   *)
C6_FieldHasLengthOfZ ==
    Returned("compute_spectral_field") => IsVector(result, Len(args.z))

C6_Witness ==
    /\ Returned("compute_spectral_field")
    /\ Len(args.z) = 3
    /\ args.n_frequencies = 2
    /\ Len(result) = 3

(* C7: calc_pulses returns an array of shape exactly (n_steps, len(z)) for *)
(* every n_steps >= 0 and every z, with one compute_spectral_field call    *)
(* per time step, n_steps calls in total.                                  *)
C7_PulsesShapeAndCalls ==
    /\ (pc = "cp" /\ fn = "calc_pulses") => cp.calls = cp.i
    /\ (pc = "csf" /\ fn = "calc_pulses") => cp.calls = cp.i + 1
    /\ Returned("calc_pulses") =>
          /\ IsMatrix(result, args.n_steps, Len(args.z))
          /\ cp.calls = args.n_steps

C7_Witness ==
    /\ Returned("calc_pulses")
    /\ args.n_steps = 2
    /\ Len(args.z) = 3
    /\ result.shape = <<2, 3>>
    /\ cp.calls = 2

C7_WitnessNoSteps ==
    /\ Returned("calc_pulses")
    /\ args.n_steps = 0
    /\ result.shape = <<0, 2>>

(* the cavity length max(z) - min(z) *)
CavityLength(z) == Sub(ArrMax(z), ArrMin(z))

(* C8: resonator_modes returns an array of shape exactly                   *)
(* (n_modes, len(z)) for every n_modes >= 1 and every z spanning a cavity  *)
(* of positive length; with n_modes = 1 the shape is (1, len(z)).          *)
C8_ModesShape ==
    (/\ Returned("resonator_modes")
     /\ args.n_modes >= 1
     /\ Less(Zero, CavityLength(args.z))) =>
        IsMatrix(result, args.n_modes, Len(args.z))

C8_Witness ==
    /\ Returned("resonator_modes")
    /\ args.n_modes = 1
    /\ result.shape = <<1, 3>>

(* C9: row i-1 of resonator_modes, for mode number i = 1..n_modes, is      *)
(* sin(2*omega_i*t - phase_i) * sin(k_i*z_j) at every position z_j, with   *)
(* unit weight, omega_i = 2*pi*i*c/(2L), k_i = omega_i/c, c = 1,           *)
(* L = max(z) - min(z); the mode frequencies are the harmonic series       *)
(* i*c/(2L) and the factor 2 on the temporal argument is kept.             *)
C9_ModeFields ==
    Returned("resonator_modes") =>
        LET L        == CavityLength(args.z)
            nu(i)    == Div(Mul(R(i), R(1)), Mul(R(2), L))
            omega(i) == Div(Mul(Mul(TwoPi, R(i)), R(1)), Mul(R(2), L))
            k(i)     == Div(omega(i), R(1))
        IN  /\ c = R(1)
            /\ \A i \in 1..args.n_modes :
                 /\ rm.frequencies[i] = nu(i)
                 /\ \A j \in 1..Len(args.z) :
                      result.rows[i][j] =
                        Mul(Sin(Sub(Mul(R(2), Mul(omega(i), args.t)),
                                    rm.phases[i])),
                            Sin(Mul(k(i), args.z[j])))

C9_Witness ==
    /\ Returned("resonator_modes")
    /\ args.n_modes = 3
    /\ args.t # Zero
    /\ \A i \in 1..3 : NonZero(result.rows[i])
    /\ result.rows[1] # result.rows[2]

(* C10: two calls of compute_spectral_field, of calc_pulses, or of         *)
(* resonator_modes with random_phases=False, with identical arguments,     *)
(* return identical arrays, whatever other calls happened in between.      *)
C10_SameArgumentsSameResult ==
    (/\ pc = "done"
     /\ kept.fn = fn
     /\ kept.args = args
     /\ fn = "resonator_modes" => ~args.random_phases) =>
        result = kept.result

C10_Witness ==
    /\ pc = "done"
    /\ fn = "resonator_modes"
    /\ kept.fn = fn
    /\ kept.args = args
    /\ ~args.random_phases
    /\ kept.rng # rng
    /\ \E i \in 1..args.n_modes : NonZero(result.rows[i])

(* the field of mode number i with phase p at position z_j *)
ModeField(i, p, t, z, j) ==
    LET omega == Div(Mul(TwoPi, R(i)), Mul(R(2), CavityLength(z)))
    IN  Mul(Sin(Sub(Mul(R(2), Mul(omega, t)), p)),
            Sin(Mul(Div(omega, R(1)), z[j])))

(* the phases of a call in or after its loop *)
PhasesOfCall ==
    (pc \in {"rm", "done"} /\ fn = "resonator_modes") =>
        /\ Len(rm.phases) = args.n_modes
        /\ ~args.random_phases =>
              /\ rm.drawn = 0
              /\ \A i \in 1..args.n_modes : rm.phases[i] = Zero
        /\ args.random_phases =>
              /\ rm.drawn = args.n_modes
              /\ \A i \in 1..args.n_modes :
                    /\ ~Less(rm.phases[i], Zero)
                    /\ Less(rm.phases[i], R(200))
        /\ pc = "done" =>
              \A i \in 1..args.n_modes : \A j \in 1..Len(args.z) :
                 result.rows[i][j] =
                    ModeField(i, rm.phases[i], args.t, args.z, j)

(* a step of the loop draws nothing and changes no phase; the call takes   *)
(* its draws from the random source on entry                               *)
PhasesKeptInLoop ==
    /\ pc = "rm" => /\ rng' = rng
                    /\ pc' \in {"rm", "done"} =>
                          /\ rm'.phases = rm.phases
                          /\ rm'.drawn = rm.drawn
    /\ (pc = "idle" /\ pc' = "rm") =>
          rng' = (rng + rm'.drawn) % RngPeriod

(* C11: with random_phases=False every mode phase is 0; with               *)
(* random_phases=True resonator_modes draws exactly n_modes phases from    *)
(* the random source, once per call and before any mode field is computed, *)
(* each phase lies in [0, 200), and mode i uses its own drawn phase for    *)
(* the whole call.                                                         *)
C11_PhasesDrawnOncePerCall == []PhasesOfCall /\ [][PhasesKeptInLoop]_vars

C11_Witness ==
    /\ Returned("resonator_modes")
    /\ args.random_phases
    /\ args.n_modes = 3
    /\ rm.phases[1] # rm.phases[2]
    /\ NonZero(result.rows[1])

(* the current call repeats the kept resonator_modes call, both with       *)
(* random phases, and the two phase vectors differ                         *)
RepeatedWithOtherPhases ==
    /\ Returned("resonator_modes")
    /\ kept.fn = fn
    /\ kept.args = args
    /\ args.random_phases
    /\ kept.phases # rm.phases

(* some mode has a spatial factor that is not zero somewhere and temporal  *)
(* factors that differ between the phase vectors p and q                   *)
PhasesShow(p, q, t, z, n_modes) ==
    \E i \in 1..n_modes :
        LET omega == Div(Mul(TwoPi, R(i)), Mul(R(2), CavityLength(z)))
            T(x)  == Sin(Sub(Mul(R(2), Mul(omega, t)), x))
        IN  /\ T(p[i]) # T(q[i])
            /\ \E j \in 1..Len(z) : Sin(Mul(omega, z[j])) # Zero

Monotonic(z) ==
    \/ \A j \in 1..(Len(z) - 1) : Less(z[j], z[j + 1])
    \/ \A j \in 1..(Len(z) - 1) : Less(z[j + 1], z[j])

(* the call in progress or just ended was given an empty or non-monotonic  *)
(* spatial axis, or a configuration with a frequency grid of length zero   *)
MalformedInput ==
    /\ fn \in {"compute_spectral_field", "calc_pulses", "resonator_modes"}
    /\ \/ Len(args.z) = 0
       \/ Is1D(args.z) /\ ~Monotonic(args.z)
       \/ fn = "compute_spectral_field" /\ args.n_frequencies = 0

(* C13: a core entry point called with malformed numeric input -- an empty *)
(* spatial axis, a non-monotonic spatial axis, or a configuration giving a *)
(* zero-length frequency grid -- fails immediately with an                 *)
(* invalid-argument error and returns no array.                            *)
C13_MalformedInputFails ==
    MalformedInput =>
        /\ pc = "raised"
        /\ error.kind = "ValueError"
        /\ result = NoResult

(* a call of compute_spectral_field with n_frequencies = 0 is in progress  *)
(* or has just ended                                                       *)
NoFrequencies ==
    /\ fn = "compute_spectral_field"
    /\ args.n_frequencies = 0

(* C14: compute_spectral_field called with n_frequencies = 0 raises no     *)
(* error: the frequency loop has nothing to do and the call returns an     *)
(* array of zeros of the length of z.                                      *)
C14_NoFrequenciesGivesZeros ==
    NoFrequencies =>
        /\ pc \in {"csf", "done"}
        /\ error = NoError
        /\ pc = "csf" =>
              /\ csf.frequencies = << >>
              /\ csf.i = 0
              /\ ~ENABLED CsfRaise
              /\ ENABLED CsfReturn
        /\ pc = "done" => result = [j \in 1..Len(args.z) |-> Zero]

C14_Witness ==
    /\ Returned("compute_spectral_field")
    /\ args.n_frequencies = 0
    /\ Len(args.z) = 3
    /\ result = <<Zero, Zero, Zero>>

StrictlyIncreasing(g) == \A j \in 1..(Len(g) - 1) : Less(g[j], g[j + 1])

AllPositive(g) == \A j \in 1..Len(g) : Less(Zero, g[j])

(* the synthesizer is running with the parameters of its caller: the       *)
(* user's, or calc_pulses' fixed nu_min and frequency count                *)
GridParameters ==
    /\ csf.nu_center = args.nu_center
    /\ csf.caller = "user" =>
          /\ csf.nu_min = args.nu_min
          /\ csf.n_frequencies = args.n_frequencies
    /\ csf.caller = "calc_pulses" =>
          /\ csf.nu_min = nu_min_default
          /\ csf.n_frequencies = n_frequencies_default

(* C15 as stated: in every call of compute_spectral_field the frequency    *)
(* grid has exactly n_frequencies points, starts at nu_min and ends at     *)
(* 2*nu_center, is strictly increasing and contains only positive          *)
(* frequencies, also in the calls made by calc_pulses.                     *)
C15_GridInvariants ==
    csf.live =>
        LET g == csf.frequencies
            N == csf.n_frequencies
        IN  /\ GridParameters
            /\ Len(g) = N
            /\ N >= 1 => (g[1] = csf.nu_min /\ g[N] = Mul(R(2), csf.nu_center))
            /\ StrictlyIncreasing(g)
            /\ AllPositive(g)

(* C15 amended: in every call of compute_spectral_field, also those made   *)
(* by calc_pulses with its fixed nu_min and frequency count, the grid has  *)
(* exactly n_frequencies points; it starts at nu_min when it has a point   *)
(* and ends at 2*nu_center when it has at least two; with at least two     *)
(* points it is strictly increasing exactly when nu_min < 2*nu_center; it  *)
(* contains only positive frequencies when nu_min > 0 and nu_center > 0.   *)
C15_GridByCases ==
    csf.live =>
        LET g  == csf.frequencies
            N  == csf.n_frequencies
            hi == Mul(R(2), csf.nu_center)
        IN  /\ GridParameters
            /\ Len(g) = N
            /\ N >= 1 => g[1] = csf.nu_min
            /\ N >= 2 => g[N] = hi
            /\ N >= 2 => (StrictlyIncreasing(g) <=> Less(csf.nu_min, hi))
            /\ (Less(Zero, csf.nu_min) /\ Less(Zero, csf.nu_center)) =>
                  AllPositive(g)

C15_Witness ==
    /\ pc = "csf"
    /\ fn = "calc_pulses"
    /\ cp.i = 1
    /\ Len(csf.frequencies) = n_frequencies_default
    /\ csf.frequencies[1] = nu_min_default
    /\ StrictlyIncreasing(csf.frequencies)

(* C16 as stated: calc_pulses takes the spectral parameters of             *)
(* compute_spectral_field -- center frequency, minimum frequency,          *)
(* frequency-sample count, spectral width, dispersion coefficients -- and  *)
(* every synthesizer call it makes runs with the caller's values.          *)
C16_TakesAllSpectralParameters ==
    fn = "calc_pulses" =>
        /\ error.kind # "TypeError"
        /\ pc = "csf" =>
              /\ csf.nu_center = args.nu_center
              /\ csf.spec_width = args.spec_width
              /\ SubSeq(csf.k_i, 1, 4) = Coefficients(args.k_i)

(* C16 amended: calc_pulses takes the center frequency, the spectral width *)
(* and the dispersion coefficients; every synthesizer call it makes runs   *)
(* with the caller's values of these three and with the fixed minimum      *)
(* frequency 0.001 and the fixed default sample count, so every row equals *)
(* the synthesizer called with these parameters; a call that passes nu_min *)
(* or n_frequencies raises TypeError and computes nothing.                 *)
C16_CallersAndFixedParameters ==
    fn = "calc_pulses" =>
        /\ args.unexpected # {} =>
              /\ pc = "raised"
              /\ error = [kind |-> "TypeError", step |-> 0]
              /\ result = NoResult
              /\ ~cp.live
        /\ args.unexpected = {} => error.kind # "TypeError"
        /\ pc = "csf" =>
              /\ csf.z = args.z
              /\ csf.t = cp.times[cp.i + 1]
              /\ csf.nu_center = args.nu_center
              /\ csf.spec_width = args.spec_width
              /\ SubSeq(csf.k_i, 1, 4) = Coefficients(args.k_i)
              /\ csf.nu_min = nu_min_default
              /\ csf.n_frequencies = n_frequencies_default
        /\ pc = "cp" =>
              \A i \in 1..cp.i :
                 cp.pulses.rows[i] =
                    Field(args.z, cp.times[i], args.nu_center, nu_min_default,
                          n_frequencies_default, args.spec_width, args.k_i)

C16_Witness ==
    /\ pc = "cp"
    /\ fn = "calc_pulses"
    /\ cp.i = 2
    /\ args.spec_width = R(1)
    /\ args.k_i = <<R(2)>>
    /\ NonZero(cp.pulses.rows[2])

C16_WitnessRejected ==
    /\ pc = "raised"
    /\ fn = "calc_pulses"
    /\ args.unexpected = {"nu_min"}
    /\ error.kind = "TypeError"

(* a coefficient argument of at most four entries, or none *)
AtMostFour(kc) == kc = None \/ Len(kc) <= 4

(* the sequence with zeros appended up to length four; (1, 5, 0, 0) when   *)
(* no sequence is given                                                    *)
ZeroPadded(kc) ==
    IF kc = None THEN <<R(1), R(5), R(0), R(0)>>
    ELSE kc \o [j \in 1..(4 - Len(kc)) |-> Zero]

(* the call that has returned and the kept call differ at most in the      *)
(* coefficient argument, and the two arguments pad to the same sequence    *)
SamePaddedCoefficients(name) ==
    /\ kept.fn = fn
    /\ [kept.args EXCEPT ![name] = args[name]] = args
    /\ AtMostFour(args[name])
    /\ AtMostFour(kept.args[name])
    /\ ZeroPadded(kept.args[name]) = ZeroPadded(args[name])

(* C17: a coefficient sequence of fewer than four entries behaves as the   *)
(* same sequence with zeros appended up to length four: for every sequence *)
(* of length 0..4 compute_spectral_field and calc_pulses compute with the  *)
(* padded sequence and return the same array for the short and the padded  *)
(* sequence; when no sequence is given the coefficients are (1, 5, 0, 0).  *)
C17_ShortCoefficientsAreZeroPadded ==
    /\ (pc = "csf" /\ fn = "compute_spectral_field"
           /\ AtMostFour(args.k_coefficients)) =>
          csf.k_i = ZeroPadded(args.k_coefficients)
    /\ (pc = "csf" /\ fn = "calc_pulses" /\ AtMostFour(args.k_i)) =>
          csf.k_i = ZeroPadded(args.k_i)
    /\ (Returned("compute_spectral_field")
           /\ AtMostFour(args.k_coefficients)) =>
          result = Field(args.z, args.t, args.nu_center, args.nu_min,
                         args.n_frequencies, args.spec_width,
                         ZeroPadded(args.k_coefficients))
    /\ (Returned("compute_spectral_field")
           /\ SamePaddedCoefficients("k_coefficients")) =>
          result = kept.result
    /\ (Returned("calc_pulses") /\ SamePaddedCoefficients("k_i")) =>
          result = kept.result

C17_Witness ==
    /\ Returned("compute_spectral_field")
    /\ SamePaddedCoefficients("k_coefficients")
    /\ kept.args.k_coefficients = None
    /\ args.k_coefficients = <<R(1), R(5)>>
    /\ NonZero(result)

C17_WitnessPulses ==
    /\ Returned("calc_pulses")
    /\ SamePaddedCoefficients("k_i")
    /\ kept.args.k_i = None
    /\ args.k_i = <<R(1), R(5), R(0), R(0)>>
    /\ NonZero(result.rows[2])

(* twice the distance of index i (from 1) to the midpoint of 1..N *)
FromMidpoint(i, N) == Abs(2 * i - (N + 1))

(* C18: the spectral envelope built for N frequency samples has exactly N  *)
(* weights, one per grid frequency, none negative; it is symmetric about   *)
(* the midpoint of the index range; a weight nearer the midpoint is never  *)
(* smaller than one farther from it, so the maximum is at the midpoint.    *)
C18_EnvelopeShape ==
    csf.live =>
        LET w == csf.spectrum
            N == csf.n_frequencies
        IN  /\ Len(w) = N
            /\ Len(w) = Len(csf.frequencies)
            /\ \A i \in 1..N : ~Less(w[i], Zero)
            /\ \A i \in 1..N : w[i] = w[N + 1 - i]
            /\ \A i, j \in 1..N :
                 FromMidpoint(i, N) <= FromMidpoint(j, N) => ~Less(w[i], w[j])

C18_Witness ==
    /\ pc = "csf"
    /\ csf.n_frequencies = 3
    /\ csf.spec_width = R(1)
    /\ Less(csf.spectrum[1], csf.spectrum[2])
    /\ csf.spectrum[1] = csf.spectrum[3]
    /\ Less(Zero, csf.spectrum[1])

(* the call that has returned differs from the kept call in show_progress  *)
(* only                                                                    *)
SameButProgress ==
    /\ kept.fn = fn
    /\ [kept.args EXCEPT !.show_progress = args.show_progress] = args

(* during a call of calc_pulses and at its return the indicator, when      *)
(* shown, has been advanced once for each completed step                   *)
ProgressFollowsSteps ==
    (fn = "calc_pulses" /\ cp.live) =>
        /\ cp.progress = IF args.show_progress THEN cp.i ELSE 0
        /\ pc = "done" => cp.i = args.n_steps
        /\ (Returned("calc_pulses") /\ SameButProgress) =>
              result = kept.result

(* the indicator moves only when a step completes, by one, with the step   *)
(* counter                                                                 *)
ProgressAdvance ==
    (cp.live /\ cp'.live /\ cp'.progress # cp.progress) =>
        /\ cp.show_progress
        /\ cp'.progress = cp.progress + 1
        /\ cp'.i = cp.i + 1
        /\ cp'.progress = cp'.i

(* C19: the progress indicator never affects results: calc_pulses returns  *)
(* the same array with show_progress=True as with show_progress=False, all *)
(* other arguments equal; when shown, the indicator is advanced exactly    *)
(* once per time step, in step order, n_steps times in total.              *)
C19_ProgressIsObservational ==
    []ProgressFollowsSteps /\ [][ProgressAdvance]_vars

C19_Witness ==
    /\ Returned("calc_pulses")
    /\ SameButProgress
    /\ args.show_progress
    /\ ~kept.args.show_progress
    /\ cp.progress = 2
    /\ result = kept.result
    /\ NonZero(result.rows[2])

(* a call of calc_pulses either is under way without an error, or has      *)
(* failed at the step whose synthesizer call raised, or has returned the   *)
(* complete array                                                          *)
BatchAllOrNothing ==
    fn = "calc_pulses" =>
        /\ error.kind = "ValueError" =>
              /\ pc = "raised"
              /\ result = NoResult
              /\ cp.i = error.step
              /\ cp.calls = error.step + 1
        /\ pc = "raised" => (error # NoError /\ result = NoResult)
        /\ pc \in {"cp", "csf", "done"} => error = NoError
        /\ pc = "done" =>
              /\ cp.i = args.n_steps
              /\ cp.calls = args.n_steps
              /\ result = cp.pulses
              /\ Len(result.rows) = args.n_steps

(* a failed call takes no further step: it only ends *)
FailureIsFinal ==
    (fn = "calc_pulses" /\ pc = "raised") =>
        /\ pc' \in {"raised", "idle"}
        /\ pc' = "raised" => (error' = error /\ cp' = cp /\ result' = result)

(* C20: if the synthesizer fails at time step i of calc_pulses the whole   *)
(* batch aborts: the error reaches the caller as raised, no step after i   *)
(* is computed, nothing is retried and no partially filled time series is  *)
(* returned; a call returns the complete array or fails entirely.          *)
C20_FailedStepAbortsBatch ==
    []BatchAllOrNothing /\ [][FailureIsFinal]_vars

C20_Witness ==
    /\ pc = "raised"
    /\ fn = "calc_pulses"
    /\ error = [kind |-> "ValueError", step |-> 0]
    /\ args.n_steps = 2
    /\ cp.calls = 1
    /\ result = NoResult

----------------------------------------------------------------------------
(* The loops of calc_pulses and resonator_modes run by independent workers: *)
(* every iteration is handed to a worker of its own, and the workers run    *)
(* in any order and interleaving.  A worker of calc_pulses has its own      *)
(* frame of compute_spectral_field (the locals of its call); the frame of   *)
(* calc_pulses or resonator_modes is shared by all workers.                 *)

WorkerCpArgs ==
    { a \in CpArgs : /\ a.z \in { <<R(0), <<1, 2>>, R(2)>>, <<R(1), R(2)>> }
                     /\ a.k_i \in { None, <<R(2)>> }
                     /\ ~a.show_progress
                     /\ a.unexpected = {} }

WorkerRmArgs == { a \in RmArgs : Len(a.z) > 0 }

Waiting == [state |-> "todo", frame |-> NoFrame]

AllStored == \A i \in DOMAIN workers : workers[i].state = "stored"

(* lines 128-132 run to the end on the frame f *)
RECURSIVE CsfRun(_)
CsfRun(f) ==
    IF f.i = Len(f.frequencies) THEN SumAxis0(f.E_field_components)
    ELSE CsfRun([f EXCEPT
                   !.E_field_components = SetRow(@, f.i, Component(f, f.i)),
                   !.i = @ + 1])

(* core.py lines 190-197 run in loop order from step i on *)
RECURSIVE PulsesLoop(_, _)
PulsesLoop(f, i) ==
    IF i = f.n_steps THEN f.pulses
    ELSE PulsesLoop(
           [f EXCEPT !.pulses =
              SetRow(@, i, CsfRun(CsfEnter("calc_pulses", f.z_arr,
                                           f.times[i + 1], f.nu_center,
                                           nu_min_default,
                                           n_frequencies_default,
                                           f.spec_width, f.k_i)))],
           i + 1)

(* resonator.py lines 95-98 run in loop order from mode i on *)
RECURSIVE ModesLoop(_, _)
ModesLoop(f, i) ==
    IF i = f.n_modes THEN f.E_modes
    ELSE ModesLoop([f EXCEPT !.E_modes = SetRow(@, i, Mode(f, i))], i + 1)

ForkPulses ==
    /\ Idle
    /\ \E a \in WorkerCpArgs :
        /\ fn' = "calc_pulses"
        /\ args' = a
        /\ cp' = CpEnter(a)
        /\ workers' = [i \in 0..(a.n_steps - 1) |-> Waiting]
    /\ pc' = "cp"
    /\ result' = NoResult
    /\ csf' = NoFrame
    /\ rm' = NoFrame
    /\ UNCHANGED <<error, rng, kept, anim, saved>>

(* lines 191-197: the worker of step i calls compute_spectral_field *)
WorkerCall(i) ==
    /\ pc = "cp"
    /\ i \in DOMAIN workers
    /\ workers[i].state = "todo"
    /\ workers' = [workers EXCEPT ![i] =
          [state |-> "run",
           frame |-> CsfEnter("calc_pulses", cp.z_arr, cp.times[i + 1],
                              cp.nu_center, nu_min_default,
                              n_frequencies_default, cp.spec_width, cp.k_i)]]
    /\ cp' = [cp EXCEPT !.calls = @ + 1]
    /\ UNCHANGED <<pc, fn, args, csf, rm, result, error, rng, kept, anim, saved>>

(* lines 128-130 on the worker's own frame *)
WorkerCsfStep(i) ==
    /\ pc = "cp"
    /\ i \in DOMAIN workers
    /\ workers[i].state = "run"
    /\ workers[i].frame.i < Len(workers[i].frame.frequencies)
    /\ workers' = [workers EXCEPT ![i].frame =
          [@ EXCEPT !.E_field_components = SetRow(@, workers[i].frame.i,
                                  Component(workers[i].frame, workers[i].frame.i)),
                    !.i = @ + 1]]
    /\ UNCHANGED <<pc, fn, args, csf, cp, rm, result, error, rng, kept, anim, saved>>

(* the snapshot stored in the row of the number of steps completed so far, *)
(* a counter all workers share                                             *)
WorkerAssignByCounter(i) ==
    /\ pc = "cp"
    /\ i \in DOMAIN workers
    /\ workers[i].state = "run"
    /\ workers[i].frame.i = Len(workers[i].frame.frequencies)
    /\ cp' = [cp EXCEPT
                !.pulses = SetRow(@, cp.i,
                             SumAxis0(workers[i].frame.E_field_components)),
                !.i = @ + 1]
    /\ workers' = [workers EXCEPT ![i] = [state |-> "stored", frame |-> NoFrame]]
    /\ UNCHANGED <<pc, fn, args, csf, rm, result, error, rng, kept, anim, saved>>

(* lines 132 and 191: the worker's snapshot becomes row i *)
WorkerAssign(i) ==
    /\ pc = "cp"
    /\ i \in DOMAIN workers
    /\ workers[i].state = "run"
    /\ workers[i].frame.i = Len(workers[i].frame.frequencies)
    /\ cp' = [cp EXCEPT
                !.pulses = SetRow(@, i,
                             SumAxis0(workers[i].frame.E_field_components)),
                !.i = @ + 1]
    /\ workers' = [workers EXCEPT ![i] = [state |-> "stored", frame |-> NoFrame]]
    /\ UNCHANGED <<pc, fn, args, csf, rm, result, error, rng, kept, anim, saved>>

(* line 199, once every step is stored *)
JoinPulses ==
    /\ pc = "cp"
    /\ AllStored
    /\ result' = cp.pulses
    /\ pc' = "done"
    /\ UNCHANGED <<fn, args, csf, cp, rm, error, rng, kept, workers, anim, saved>>

(* resonator.py lines 69-82: everything before the loop, the drawing of    *)
(* the phases included                                                     *)
ForkModes ==
    /\ Idle
    /\ \E a \in WorkerRmArgs :
        /\ fn' = "resonator_modes"
        /\ args' = a
        /\ rm' = RmEnter(a, rng)
        /\ rng' = IF a.random_phases THEN RngAfter(rng, a.n_modes) ELSE rng
        /\ workers' = [i \in 0..(a.n_modes - 1) |-> Waiting]
    /\ pc' = "rm"
    /\ result' = NoResult
    /\ csf' = NoFrame
    /\ cp' = NoFrame
    /\ UNCHANGED <<error, kept, anim, saved>>

(* lines 96-98: the worker of mode i computes and stores row i *)
WorkerMode(i) ==
    /\ pc = "rm"
    /\ i \in DOMAIN workers
    /\ workers[i].state = "todo"
    /\ rm' = [rm EXCEPT !.E_modes = SetRow(@, i, Mode(rm, i)), !.i = @ + 1]
    /\ workers' = [workers EXCEPT ![i] = [state |-> "stored", frame |-> NoFrame]]
    /\ UNCHANGED <<pc, fn, args, csf, cp, result, error, rng, kept, anim, saved>>

JoinModes ==
    /\ pc = "rm"
    /\ AllStored
    /\ result' = rm.E_modes
    /\ pc' = "done"
    /\ UNCHANGED <<fn, args, csf, cp, rm, error, rng, kept, workers, anim, saved>>

NextWorkers ==
    \/ ForkPulses
    \/ \E i \in 0..(MaxSteps - 1) : WorkerCall(i)
    \/ \E i \in 0..(MaxSteps - 1) : WorkerCsfStep(i)
    \/ \E i \in 0..(MaxSteps - 1) : WorkerAssign(i)
    \/ JoinPulses
    \/ ForkModes
    \/ \E i \in 0..(MaxModes - 1) : WorkerMode(i)
    \/ JoinModes
    \/ Finish
    \/ Seed

SpecWorkers == Init /\ [][NextWorkers]_vars

(* the rows of the workers that have stored are those of the sequential    *)
(* loop and the other rows are still zero                                  *)
RowsAsSequential(rows, seq) ==
    \A i \in DOMAIN workers :
        rows[i + 1] = IF workers[i].state = "stored" THEN seq.rows[i + 1]
                      ELSE Zeros(Len(rows[i + 1]))

(* C21: the iterations of the step loop of calc_pulses and of the mode     *)
(* loop of resonator_modes share no mutable state: row i depends only on   *)
(* z, its own time or mode number and the call's parameters, so run in any *)
(* order and interleaving they give the array of the sequential loop.      *)
C21_AnyOrderGivesSequentialArray ==
    /\ (fn = "calc_pulses" /\ pc \in {"cp", "done"}) =>
          LET seq == PulsesLoop(CpEnter(args), 0)
          IN  /\ RowsAsSequential(cp.pulses.rows, seq)
              /\ pc = "done" => result = seq
    /\ (fn = "resonator_modes" /\ pc \in {"rm", "done"}) =>
          LET seq == ModesLoop([rm EXCEPT !.E_modes =
                                  Zeros2(rm.n_modes, Len(rm.z))], 0)
          IN  /\ RowsAsSequential(rm.E_modes.rows, seq)
              /\ pc = "done" => result = seq

C21_Witness ==
    /\ pc = "cp"
    /\ fn = "calc_pulses"
    /\ args.n_steps = 2
    /\ workers[1].state = "stored"
    /\ workers[0].state = "run"
    /\ workers[0].frame.i = 1
    /\ cp.pulses.rows[2] # cp.pulses.rows[1]
    /\ NonZero(cp.pulses.rows[2])

C21_WitnessModes ==
    /\ pc = "done"
    /\ fn = "resonator_modes"
    /\ args.n_modes = 3
    /\ args.random_phases
    /\ NonZero(result.rows[3])

----------------------------------------------------------------------------

(* the coefficient argument of the call in progress, if it takes one *)
CoefficientsPassed ==
    IF fn = "compute_spectral_field" THEN args.k_coefficients
    ELSE IF fn = "calc_pulses" THEN args.k_i
    ELSE None

(* the frames read the caller's axis and never a changed copy of it; a     *)
(* call given no coefficients computes with (1, 5, 0), zero-padded,        *)
(* whatever calls were made before                                         *)
CallerObjectsAsPassed ==
    /\ fn = "compute_spectral_field" => args \in CsfArgs
    /\ fn = "calc_pulses" => args \in CpArgs
    /\ fn = "resonator_modes" => args \in RmArgs
    /\ csf.live => csf.z = args.z
    /\ cp.live => cp.z_arr = args.z
    /\ rm.live => rm.z = args.z
    /\ (cp.live /\ args.k_i = None) => cp.k_i = <<R(1), R(5), R(0)>>
    /\ (cp.live /\ args.k_i # None) => cp.k_i = args.k_i
    /\ (csf.live /\ CoefficientsPassed = None) =>
          csf.k_i = <<R(1), R(5), R(0), R(0)>>
    /\ (Returned("compute_spectral_field") /\ kept.fn = fn
           /\ kept.args = args /\ args.k_coefficients = None) =>
          result = kept.result

(* from the call to the return the caller's arguments stay as passed *)
ArgumentsUntouched ==
    (pc \in {"csf", "cp", "rm"}) => (args' = args /\ fn' = fn)

(* C22: compute_spectral_field, calc_pulses and resonator_modes never      *)
(* modify the caller's spatial axis or coefficient sequence, and the       *)
(* default coefficients are built anew in every call, so no call changes   *)
(* the defaults a later call sees.                                         *)
C22_CallerObjectsUnmodified ==
    []CallerObjectsAsPassed /\ [][ArgumentsUntouched]_vars

C22_Witness ==
    /\ Returned("compute_spectral_field")
    /\ args.k_coefficients = <<R(2)>>
    /\ csf.k_i = <<R(2), R(0), R(0), R(0)>>
    /\ csf.z = args.z
    /\ kept.fn = fn
    /\ kept.args.k_coefficients = None
    /\ NonZero(result)

----------------------------------------------------------------------------

(* the call that has returned repeats the kept call of                     *)
(* compute_spectral_field with other dispersion coefficients and all else  *)
(* equal, at a time t > 0 and with at least one frequency                  *)
RepeatedWithOtherCoefficients ==
    /\ Returned("compute_spectral_field")
    /\ kept.fn = fn
    /\ [kept.args EXCEPT !.k_coefficients = args.k_coefficients] = args
    /\ kept.args.k_coefficients # args.k_coefficients
    /\ Less(Zero, args.t)
    /\ args.n_frequencies >= 1

(* the wave vector at grid frequency number i under the coefficients kc *)
GridWaveVector(kc, i) ==
    LET K  == Coefficients(kc)
        nu == Linspace(args.nu_min, Mul(R(2), args.nu_center),
                       args.n_frequencies)
    IN  wave_vector(nu[i], args.nu_center, K[1], K[2], K[3], K[4])

(* the change of coefficients changes the wave vector at a grid frequency *)
WaveVectorChanged ==
    \E i \in 1..args.n_frequencies :
        GridWaveVector(kept.args.k_coefficients, i)
            # GridWaveVector(args.k_coefficients, i)

(* the contribution of grid frequency number i at position number j under  *)
(* the coefficients kc                                                     *)
Contribution(kc, i, j) ==
    LET nu == Linspace(args.nu_min, Mul(R(2), args.nu_center),
                       args.n_frequencies)
        w  == gaussian(args.n_frequencies, args.spec_width)
    IN  PlaneWave(w[i], nu[i], args.t, GridWaveVector(kc, i), args.z[j])

(* the sum of all contributions at position number j *)
SummedContributions(kc, j) ==
    SeqSum([i \in 1..args.n_frequencies |-> Contribution(kc, i, j)])

(* C23 as stated: changing the dispersion coefficients with z, t and all   *)
(* else fixed changes the output of compute_spectral_field, for any t > 0  *)
(* and n_frequencies >= 1, whenever the change has a nonzero effect on the *)
(* wave vector at some grid frequency.                                     *)
C23_CoefficientChangeShows ==
    (RepeatedWithOtherCoefficients /\ WaveVectorChanged) =>
        result # kept.result

(* C23 amended: for t > 0 and n_frequencies >= 1 the output changes        *)
(* exactly when the summed contributions differ at some position; for that *)
(* the change must alter the contribution of some grid frequency at some   *)
(* position, hence the wave vector there, but a changed wave vector alone  *)
(* does not suffice.                                                       *)
C23_OutputChangesWithSummedPhases ==
    RepeatedWithOtherCoefficients =>
        /\ result # kept.result <=>
              \E j \in 1..Len(args.z) :
                  SummedContributions(kept.args.k_coefficients, j)
                      # SummedContributions(args.k_coefficients, j)
        /\ result # kept.result =>
              /\ WaveVectorChanged
              /\ \E j \in 1..Len(args.z) : \E i \in 1..args.n_frequencies :
                    Contribution(kept.args.k_coefficients, i, j)
                        # Contribution(args.k_coefficients, i, j)

C23_Witness ==
    /\ RepeatedWithOtherCoefficients
    /\ WaveVectorChanged
    /\ result # kept.result
    /\ NonZero(result)

----------------------------------------------------------------------------
(* Animation (panim/animation.py, animate_resonator of panim/resonator.py) *)
(* A string is the sequence of its characters.  A FuncAnimation is         *)
(* rendered by anim.save and by anim.to_html5_video: the library calls     *)
(* init once and then update(frame) for frame = 0 .. frames-1, in order;   *)
(* what update puts into the line artists is one frame of the output.      *)

MaxFrames == 3

mp4 == <<".", "m", "p", "4">>

gif == <<".", "g", "i", "f">>

(* str.endswith *)
EndsWith(str, suffix) ==
    /\ Len(str) >= Len(suffix)
    /\ SubSeq(str, Len(str) - Len(suffix) + 1, Len(str)) = suffix

Paths ==
    { << >>, <<"a">> \o mp4, <<"a">> \o gif, <<"a">>, <<"a", ".", "a", "v", "i">>,
      <<"a">> \o mp4 \o gif, <<"a", ".", "M", "P", "4">>, mp4 }

(* a pulse time series of n rows over an axis of two positions *)
Series(n) == [shape |-> <<n, 2>>, rows |-> [i \in 1..n |-> <<R(i), R(2 - i)>>]]

(* the time points 1/2, 1, 3/2, ... *)
TimePoints(n) == [i \in 1..n |-> <<i, 2>>]

(* an optional index: None, or the index given *)
NoIndex == [given |-> FALSE, index |-> 0]

Index(i) == [given |-> TRUE, index |-> i]

AnimateArgs ==
    [ z : { <<R(0), R(1)>>, << >> }, pulses : { Series(n) : n \in 0..MaxFrames },
      saveas : Paths ]

AnimateWithTimeArgs ==
    [ z : { <<R(0), R(1)>> }, pulses : { Series(n) : n \in 0..MaxFrames },
      saveas : { << >>, <<"a">> \o gif, <<"a">> },
      fixed_z_1 : {0, 1}, fixed_z_2 : { NoIndex, Index(1) } ]

AnimateResonatorArgs ==
    [ z : { <<R(0), <<1, 2>>, R(2)>>, << >> },
      times : { TimePoints(n) : n \in 0..MaxFrames }, n_modes : {0, 2},
      saveas : { << >>, <<"a">> \o gif, <<"a">> \o mp4, <<"a", ".", "a", "v", "i">> } ]

SaveAnimationArgs == [ frames : 0..MaxFrames, saveas : Paths ]

(* the value None returned by a function, and the HTML object wrapping the *)
(* rendered video                                                          *)
PyNone == [py |-> "None", frames |-> << >>]

HTML(video) == [py |-> "HTML", frames |-> video]

(* the rendering that is not going on *)
NoTarget == [path |-> << >>, writer |-> "none"]

(* animation.py lines 81-83 and resonator.py lines 186-188 *)
update(a, frame) == [x |-> a.z, y |-> a.pulses[frame + 1]]

(* ndarray / scalar *)
DivideAll(a, x) == [i \in 1..Len(a) |-> [j \in 1..Len(a[i]) |-> Div(a[i][j], x)]]

(* ndarray.max() of a two-dimensional array with at least one entry *)
MatrixMax(rows) == ArrMax([i \in 1..Len(rows) |-> ArrMax(rows[i])])

(* the trace with the current frame included *)
TraceWithCurrent(a, frame, column) == [i \in 1..(frame + 1) |-> a.pulses[i][column + 1]]

(* pulses_norm[:frame, column] *)
Trace(a, frame, column) == [i \in 1..frame |-> a.pulses[i][column + 1]]

(* animation.py lines 210-213 and 223-227; range(frame) is 0 .. frame-1 *)
update_with_time(a, frame) ==
    [ line_spatial |-> [x |-> a.z, y |-> a.pulses[frame + 1]],
      line_z1 |-> [x |-> [i \in 1..frame |-> i - 1],
                   y |-> Trace(a, frame, a.fixed_z_1.index)],
      line_z2 |-> IF a.fixed_z_2 = NoIndex THEN << >>
                  ELSE << [x |-> [i \in 1..frame |-> i - 1],
                           y |-> Trace(a, frame, a.fixed_z_2.index)] >> ]

(* the frame of an animation function once the FuncAnimation is built *)
AnimFrame(kind, z, pulses, n_panels, fixed_z_1, fixed_z_2, saveas) ==
    [ live |-> TRUE, kind |-> kind, z |-> z, pulses |-> pulses,
      frames |-> Len(pulses), n_panels |-> n_panels,
      fixed_z_1 |-> fixed_z_1, fixed_z_2 |-> fixed_z_2, saveas |-> saveas,
      queue |-> << >>, target |-> NoTarget, frame |-> 0, drawn |-> << >> ]

(* what a display function leaves alone: the numerical core's frames *)
core == <<csf, cp, rm, rng, kept, workers>>

(* a display function raising ValueError before any output *)
DisplayRaise(f, a) ==
    /\ fn' = f
    /\ args' = a
    /\ pc' = "raised"
    /\ error' = [kind |-> "ValueError", step |-> 0]
    /\ anim' = NoFrame

(* a display function with its FuncAnimation built *)
DisplayBuilt(f, a, frame) ==
    /\ fn' = f
    /\ args' = a
    /\ pc' = "anim"
    /\ error' = NoError
    /\ anim' = frame

(* animate, lines 66-96: the limits of empty arrays raise ValueError *)
CallAnimate ==
    /\ Idle
    /\ \E a \in AnimateArgs :
        IF Len(a.z) = 0 \/ a.pulses.shape[1] = 0
        THEN DisplayRaise("animate", a)
        ELSE DisplayBuilt("animate", a,
                 AnimFrame("animate", a.z, a.pulses.rows, 1, NoIndex, NoIndex, a.saveas))
    /\ result' = NoResult
    /\ saved' = << >>
    /\ UNCHANGED core

(* animate_with_time, lines 155-238 *)
CallAnimateWithTime ==
    /\ Idle
    /\ \E a \in AnimateWithTimeArgs :
        IF a.pulses.shape[1] = 0
        THEN \* pulses.max() of an empty array raises ValueError
             DisplayRaise("animate_with_time", a)
        ELSE LET pulses_norm == DivideAll(a.pulses.rows, MatrixMax(a.pulses.rows))
                 n_panels    == IF a.fixed_z_2 = NoIndex THEN 2 ELSE 3
             IN  DisplayBuilt("animate_with_time", a,
                     AnimFrame("animate_with_time", a.z, pulses_norm, n_panels,
                               Index(a.fixed_z_1), a.fixed_z_2, a.saveas))
    /\ result' = NoResult
    /\ saved' = << >>
    /\ UNCHANGED core

(* resonator.py lines 167-171: the summed modes at every time point *)
ResonatorPulses(a) ==
    [i \in 1..Len(a.times) |->
        SumAxis0(ModesLoop(RmEnter([t |-> a.times[i], z |-> a.z,
                                    n_modes |-> a.n_modes,
                                    random_phases |-> FALSE], 0), 0))]

(* animate_resonator, lines 166-199: resonator_modes raises on an empty z, *)
(* and np.max on the empty list of pulses                                  *)
CallAnimateResonator ==
    /\ Idle
    /\ \E a \in AnimateResonatorArgs :
        IF Len(a.z) = 0 \/ Len(a.times) = 0
        THEN DisplayRaise("animate_resonator", a)
        ELSE DisplayBuilt("animate_resonator", a,
                 AnimFrame("animate_resonator", a.z, ResonatorPulses(a), 1,
                           NoIndex, NoIndex, a.saveas))
    /\ result' = NoResult
    /\ saved' = << >>
    /\ UNCHANGED core

(* _save_animation called with an animation of any number of frames *)
CallSaveAnimation ==
    /\ Idle
    /\ \E a \in SaveAnimationArgs :
        DisplayBuilt("_save_animation", a,
            AnimFrame("animate", <<R(0), R(1)>>, Series(a.frames).rows, 1,
                      NoIndex, NoIndex, a.saveas))
    /\ result' = NoResult
    /\ saved' = << >>
    /\ UNCHANGED core

(* a save to a bare path in place of the two files *)
save_animation_bare(saveas) ==
    IF EndsWith(saveas, mp4) THEN << [path |-> saveas, writer |-> "ffmpeg"] >>
    ELSE IF EndsWith(saveas, gif)
         THEN << [path |-> saveas, writer |-> "imagemagick"] >>
         ELSE << [path |-> saveas, writer |-> "ffmpeg"] >>

(* _save_animation, lines 265-291: the saves it makes, in order *)
save_animation(saveas) ==
    IF EndsWith(saveas, mp4) THEN << [path |-> saveas, writer |-> "ffmpeg"] >>
    ELSE IF EndsWith(saveas, gif)
         THEN << [path |-> saveas, writer |-> "imagemagick"] >>
         ELSE << [path |-> saveas \o mp4, writer |-> "ffmpeg"],
                 [path |-> saveas \o gif, writer |-> "imagemagick"] >>

(* animation.py lines 98-101 and 241-244; a direct call of _save_animation *)
(* is in the same position                                                 *)
SaveAnimation ==
    /\ pc = "anim"
    /\ fn \in {"animate", "animate_with_time", "_save_animation"}
    /\ fn = "_save_animation" \/ anim.saveas # << >>
    /\ anim' = [anim EXCEPT !.queue = save_animation(anim.saveas)]
    /\ pc' = "save"
    /\ UNCHANGED <<fn, args, result, error, saved>>
    /\ UNCHANGED core

(* resonator.py lines 201-204: one save with the imagemagick writer *)
SaveResonator ==
    /\ pc = "anim"
    /\ fn = "animate_resonator"
    /\ anim.saveas # << >>
    /\ anim' = [anim EXCEPT
                  !.queue = << [path |-> anim.saveas, writer |-> "imagemagick"] >>]
    /\ pc' = "save"
    /\ UNCHANGED <<fn, args, result, error, saved>>
    /\ UNCHANGED core

(* anim.to_html5_video(): animation.py 103, 246 and resonator.py 207 *)
ToHtml5Video ==
    /\ pc = "anim"
    /\ fn # "_save_animation"
    /\ anim.saveas = << >>
    /\ anim' = [anim EXCEPT !.target = [path |-> << >>, writer |-> "html5"],
                            !.frame = 0, !.drawn = << >>]
    /\ pc' = "render"
    /\ UNCHANGED <<fn, args, result, error, saved>>
    /\ UNCHANGED core

(* anim.save(path, writer) starts *)
BeginSave ==
    /\ pc = "save"
    /\ anim.queue # << >>
    /\ anim' = [anim EXCEPT !.target = Head(anim.queue), !.queue = Tail(@),
                            !.frame = 0, !.drawn = << >>]
    /\ pc' = "render"
    /\ UNCHANGED <<fn, args, result, error, saved>>
    /\ UNCHANGED core

(* the frame drawn from the first row whatever the frame number *)
UpdateFirstRow ==
    /\ pc = "render"
    /\ anim.frame < anim.frames
    /\ anim' = [anim EXCEPT
                  !.drawn = Append(@, IF anim.kind = "animate_with_time"
                                      THEN update_with_time(anim, 0)
                                      ELSE update(anim, 0)),
                  !.frame = @ + 1]
    /\ UNCHANGED <<pc, fn, args, result, error, saved>>
    /\ UNCHANGED core

(* the library calls update(frame) for the next frame *)
Update ==
    /\ pc = "render"
    /\ anim.frame < anim.frames
    /\ anim' = [anim EXCEPT
                  !.drawn = Append(@, IF anim.kind = "animate_with_time"
                                      THEN update_with_time(anim, anim.frame)
                                      ELSE update(anim, anim.frame)),
                  !.frame = @ + 1]
    /\ UNCHANGED <<pc, fn, args, result, error, saved>>
    /\ UNCHANGED core

(* anim.save returns: the file is written *)
EndSave ==
    /\ pc = "render"
    /\ anim.frame = anim.frames
    /\ anim.target.writer # "html5"
    /\ saved' = Append(saved, [path |-> anim.target.path,
                               writer |-> anim.target.writer,
                               frames |-> anim.drawn])
    /\ anim' = [anim EXCEPT !.target = NoTarget]
    /\ pc' = "save"
    /\ UNCHANGED <<fn, args, result, error>>
    /\ UNCHANGED core

(* the function returning the video although it was asked to save *)
ReturnNoneAsHtml ==
    /\ pc = "save"
    /\ anim.queue = << >>
    /\ result' = HTML(<< >>)
    /\ pc' = "done"
    /\ UNCHANGED <<fn, args, error, anim, saved>>
    /\ UNCHANGED core

(* return None after the saves *)
ReturnNone ==
    /\ pc = "save"
    /\ anim.queue = << >>
    /\ result' = PyNone
    /\ pc' = "done"
    /\ UNCHANGED <<fn, args, error, anim, saved>>
    /\ UNCHANGED core

(* return HTML(anim.to_html5_video()) *)
ReturnHtml ==
    /\ pc = "render"
    /\ anim.frame = anim.frames
    /\ anim.target.writer = "html5"
    /\ result' = HTML(anim.drawn)
    /\ pc' = "done"
    /\ UNCHANGED <<fn, args, error, anim, saved>>
    /\ UNCHANGED core

(* the caller takes the outcome and clears the output directory *)
FinishDisplay ==
    /\ pc \in {"done", "raised"}
    /\ pc' = "idle"
    /\ fn' = "none"
    /\ args' = NoResult
    /\ result' = NoResult
    /\ error' = NoError
    /\ anim' = NoFrame
    /\ saved' = << >>
    /\ UNCHANGED core

----------------------------------------------------------------------------
(* plot_spectral_components (panim/plotting.py) *)

(* the numbers of frequencies asked for *)
PlotCounts == {0, 1, 2, 5, 15, 20, 25}

PlotArgs ==
    [ z : { <<R(0), R(1)>> }, t : { R(0), R(1) }, n_frequencies : PlotCounts,
      k_i : { None, <<R(1)>> } ]

(* range(start, stop, step) for start <= stop and step > 0 *)
Range(start, stop, step) ==
    [i \in 1..((stop - start + step - 1) \div step) |-> start + (i - 1) * step]

(* the display range running to the last component *)
plot_indices_to_end(n_frequencies) ==
    LET n_plot_min == n_frequencies \div 5
        spacing    == 10
    IN  Range(n_plot_min, n_frequencies, spacing)

(* plotting.py lines 185-188; int() of a quotient that is not negative *)
plot_indices(n_frequencies) ==
    LET n_plot_min == n_frequencies \div 5
        n_plot_max == (4 * n_frequencies) \div 5
        spacing    == 10
    IN  Range(n_plot_min, n_plot_max, spacing)

(* plotting.py lines 177-180: row i of the array is component i *)
E_components(f) ==
    [ shape |-> f.E_field_components.shape,
      rows |-> [i \in 1..Len(f.frequencies) |-> Component(f, i - 1)] ]

(* plotting.py lines 166-198: the defaults of the signature are nu_center  *)
(* = 1.0 and spec_width = 200.0; nu_min is passed as 0                     *)
CallPlotSpectralComponents ==
    /\ Idle
    /\ \E a \in PlotArgs :
        LET f == CsfEnter("plot_spectral_components", a.z, a.t, R(1), R(0),
                          a.n_frequencies, R(200), a.k_i)
            E == E_components(f)
        IN  /\ fn' = "plot_spectral_components"
            /\ args' = a
            /\ anim' = [ live |-> TRUE, kind |-> "plot", z |-> a.z,
                         E_components |-> E, E_field |-> SumAxis0(E),
                         plot_indices |-> plot_indices(a.n_frequencies),
                         i |-> 0, drawn |-> << >> ]
    /\ pc' = "plot"
    /\ result' = NoResult
    /\ error' = NoError
    /\ saved' = << >>
    /\ UNCHANGED core

(* plotting.py lines 201-202: ax_comp.plot(z, E_components[i]) *)
PlotComponent ==
    /\ pc = "plot"
    /\ anim.i < Len(anim.plot_indices)
    /\ LET i == anim.plot_indices[anim.i + 1]
       IN  anim' = [anim EXCEPT
                      !.drawn = Append(@, [index |-> i, x |-> anim.z,
                                           y |-> anim.E_components.rows[i + 1]]),
                      !.i = @ + 1]
    /\ UNCHANGED <<pc, fn, args, result, error, saved>>
    /\ UNCHANGED core

(* plotting.py lines 204-226: ax_pulse.plot(z, E_field); the figures *)
PlotReturn ==
    /\ pc = "plot"
    /\ anim.i = Len(anim.plot_indices)
    /\ result' = [ py |-> "Figures", components |-> anim.drawn,
                   pulse |-> [x |-> anim.z, y |-> anim.E_field] ]
    /\ pc' = "done"
    /\ UNCHANGED <<fn, args, error, anim, saved>>
    /\ UNCHANGED core

NextDisplay ==
    \/ CallAnimate
    \/ CallAnimateWithTime
    \/ CallAnimateResonator
    \/ CallSaveAnimation
    \/ SaveAnimation
    \/ SaveResonator
    \/ ToHtml5Video
    \/ BeginSave
    \/ Update
    \/ EndSave
    \/ ReturnNone
    \/ ReturnHtml
    \/ CallPlotSpectralComponents
    \/ PlotComponent
    \/ PlotReturn
    \/ FinishDisplay

SpecDisplay == Init /\ [][NextDisplay]_vars

----------------------------------------------------------------------------
(* Export *)

Exporters == {"animate", "animate_with_time", "animate_resonator", "_save_animation"}

Animators == {"animate", "animate_with_time", "animate_resonator"}

(* a path given whose extension is neither .mp4 nor .gif *)
Unsupported(path) ==
    /\ path # << >>
    /\ ~EndsWith(path, mp4)
    /\ ~EndsWith(path, gif)

(* C24: once the animation is built, an export request whose path names  *)
(* an unsupported format writes no file, starts no save and does not      *)
(* return: it fails with an unsupported-format error                      *)
C24_UnsupportedFormatFails ==
    (fn \in Exporters /\ anim.live /\ Unsupported(args.saveas)) =>
        /\ saved = << >>
        /\ pc \in {"anim", "raised"}
        /\ pc = "raised" => error.kind = "UnsupportedFormat"

(* C25: an animation function returns the HTML video and saves nothing    *)
(* exactly when saveas is empty; with a path it saves and returns None;   *)
(* it never does both                                                      *)
C25_HtmlOrFileNeverBoth ==
    /\ \A f \in Animators :
           Returned(f) =>
               /\ (args.saveas = << >>) <=> (result.py = "HTML")
               /\ (args.saveas = << >>) <=> (saved = << >>)
               /\ (args.saveas # << >>) <=> (result = PyNone)
    /\ (fn \in Animators /\ args.saveas = << >>) => saved = << >>
    /\ (fn \in Animators /\ anim.live /\ anim.target.writer = "html5") =>
           args.saveas = << >>

C25_WitnessHtml ==
    /\ Returned("animate_with_time")
    /\ result.py = "HTML"
    /\ Len(result.frames) = MaxFrames

C25_Witness ==
    /\ C25_WitnessHtml \/ Returned("animate_resonator")
    /\ Returned("animate_resonator") =>
           /\ result = PyNone
           /\ Len(saved) = 1
           /\ Len(saved[1].frames) = MaxFrames

(* the path and the writer of each save made so far *)
Saves == [i \in 1..Len(saved) |-> [path |-> saved[i].path, writer |-> saved[i].writer]]

(* the saves _save_animation has made or is making *)
Started ==
    IF pc = "render" THEN Append(Saves, anim.target) ELSE Saves

Prefix(s, t) == Len(s) <= Len(t) /\ s = SubSeq(t, 1, Len(s))

(* C26: _save_animation makes one save with ffmpeg to a path ending in    *)
(* .mp4, one save with imagemagick to a path ending in .gif, and for any  *)
(* other path two saves, to path + .mp4 and then to path + .gif, never to *)
(* the path itself                                                         *)
C26_DispatchOnSuffix ==
    (fn \in {"animate", "animate_with_time", "_save_animation"} /\ anim.live
        /\ pc \in {"save", "render", "done"} /\ anim.target.writer # "html5") =>
        LET path  == anim.saveas
            plan  == IF EndsWith(path, mp4)
                     THEN << [path |-> path, writer |-> "ffmpeg"] >>
                     ELSE IF EndsWith(path, gif)
                     THEN << [path |-> path, writer |-> "imagemagick"] >>
                     ELSE << [path |-> path \o mp4, writer |-> "ffmpeg"],
                             [path |-> path \o gif, writer |-> "imagemagick"] >>
        IN  /\ Prefix(Started, plan)
            /\ pc = "done" => Saves = plan
            /\ Unsupported(path) \/ path = << >> =>
                   \A i \in 1..Len(Started) : Started[i].path # path

C26_WitnessOne ==
    /\ Returned("_save_animation")
    /\ args.saveas = <<"a">> \o mp4 \o gif
    /\ Len(saved) = 1

C26_Witness ==
    /\ Returned("animate")
    /\ args.saveas = <<"a", ".", "a", "v", "i">>
    /\ Len(saved) = 2
    /\ Len(saved[2].frames) = MaxFrames

----------------------------------------------------------------------------
(* Frames *)

(* the number of time steps the caller passed *)
TimeSteps ==
    IF fn = "animate_resonator" THEN Len(args.times) ELSE Len(args.pulses.rows)

(* the snapshot of time step f (from 0): the row of the pulses passed, or *)
(* the sum over the modes, with zero phases, at times[f]                  *)
Snapshot(f) ==
    IF fn = "animate_resonator"
    THEN [j \in 1..Len(args.z) |->
            SeqSum([i \in 1..args.n_modes |->
                      ModeField(i, Zero, args.times[f + 1], args.z, j)])]
    ELSE args.pulses.rows[f + 1]

(* frames 0 .. Len(video)-1 show the snapshots of those steps, in order *)
InTimeOrder(video) ==
    \A f \in 0..(Len(video) - 1) : video[f + 1] = [x |-> args.z, y |-> Snapshot(f)]

(* C28: every output of animate and animate_resonator has one frame per   *)
(* time step, frame f showing the snapshot of step f (for the resonator   *)
(* the sum over the modes at times[f] with zero phases); while an output  *)
(* is rendered the frames so far are those of steps 0 .. frame-1          *)
C28_OneFramePerTimeStep ==
    (fn \in {"animate", "animate_resonator"} /\ anim.live) =>
        /\ anim.frames = TimeSteps
        /\ pc = "render" =>
               /\ anim.frame <= TimeSteps
               /\ Len(anim.drawn) = anim.frame
               /\ InTimeOrder(anim.drawn)
        /\ \A i \in 1..Len(saved) :
               Len(saved[i].frames) = TimeSteps /\ InTimeOrder(saved[i].frames)
        /\ (pc = "done" /\ result.py = "HTML") =>
               Len(result.frames) = TimeSteps /\ InTimeOrder(result.frames)

C28_WitnessAnimate ==
    /\ Returned("animate")
    /\ Len(saved) = 2
    /\ Len(saved[2].frames) = MaxFrames
    /\ saved[2].frames[2] # saved[2].frames[MaxFrames]

C28_Witness ==
    /\ Returned("animate_resonator")
    /\ result.py = "HTML"
    /\ args.n_modes = 2
    /\ Len(result.frames) = MaxFrames
    /\ NonZero(result.frames[1].y)
    /\ result.frames[1] # result.frames[2]

(* the largest entry of the pulses passed *)
GlobalMaximum ==
    LET entries == { args.pulses.rows[i][j] :
                       i \in 1..Len(args.pulses.rows), j \in 1..Len(args.z) }
    IN  CHOOSE m \in entries : \A e \in entries : ~Less(m, e)

(* entry j (from 0) of row f (from 0) of the normalised pulses *)
Normalised(f, j) == Div(args.pulses.rows[f + 1][j + 1], GlobalMaximum)

(* the samples of frames 0 .. f-1 at position index j *)
TraceUpTo(f, j) ==
    [ x |-> [i \in 1..f |-> i - 1], y |-> [i \in 1..f |-> Normalised(i - 1, j)] ]

(* frames 0 .. Len(video)-1 of animate_with_time *)
PanelsInTimeOrder(video) ==
    \A f \in 0..(Len(video) - 1) :
        LET shown == video[f + 1]
        IN  /\ shown.line_spatial =
                   [x |-> args.z, y |-> [j \in 1..Len(args.z) |-> Normalised(f, j - 1)]]
            /\ shown.line_z1 = TraceUpTo(f, args.fixed_z_1)
            /\ Len(shown.line_z1.y) = f
            /\ IF args.fixed_z_2 = NoIndex
               THEN shown.line_z2 = << >>
               ELSE shown.line_z2 = << TraceUpTo(f, args.fixed_z_2.index) >>
            /\ 2 + Len(shown.line_z2) = anim.n_panels

(* C30: in animate_with_time frame f shows row f of the pulses divided by *)
(* their global maximum, and each time trace shows the f samples of       *)
(* frames 0 .. f-1 at its fixed index, none at frame 0 and never the      *)
(* current one; there are two panels when fixed_z_2 is None, else three   *)
C30_TracesGrowWithFrames ==
    (fn = "animate_with_time" /\ anim.live) =>
        /\ anim.n_panels = IF args.fixed_z_2 = NoIndex THEN 2 ELSE 3
        /\ pc = "render" => Len(anim.drawn) = anim.frame /\ PanelsInTimeOrder(anim.drawn)
        /\ \A i \in 1..Len(saved) : PanelsInTimeOrder(saved[i].frames)
        /\ (pc = "done" /\ result.py = "HTML") => PanelsInTimeOrder(result.frames)

C30_WitnessTwoPanels ==
    /\ Returned("animate_with_time")
    /\ args.fixed_z_2 = NoIndex
    /\ Len(saved) = 2
    /\ Len(saved[2].frames) = MaxFrames

C30_Witness ==
    /\ Returned("animate_with_time")
    /\ result.py = "HTML"
    /\ args.fixed_z_2 # NoIndex
    /\ args.fixed_z_1 # args.fixed_z_2.index
    /\ Len(result.frames) = MaxFrames
    /\ result.frames[1].line_z1.y = << >>
    /\ Len(result.frames[MaxFrames].line_z1.y) = MaxFrames - 1
    /\ result.frames[MaxFrames].line_z1.y # result.frames[MaxFrames].line_z2[1].y
    /\ result.frames[1].line_spatial.y # args.pulses.rows[1]

----------------------------------------------------------------------------
(* Decomposition plot *)

(* the indices N div 5, N div 5 + 10, ... strictly below 4N div 5 *)
DisplayIndices(N) ==
    { i \in 0..(N - 1) :
        /\ i >= N \div 5
        /\ i < (4 * N) \div 5
        /\ (i - N \div 5) % 10 = 0 }

(* component i (from 0) of the decomposition the plot was asked for *)
SpectralComponent(i) ==
    LET N        == args.n_frequencies
        K        == Coefficients(args.k_i)
        nu       == Linspace(Zero, R(2), N)
        envelope == gaussian(N, R(200))
        k        == wave_vector(nu[i + 1], One, K[1], K[2], K[3], K[4])
    IN  [j \in 1..Len(args.z) |->
            PlaneWave(envelope[i + 1], nu[i + 1], args.t, k, args.z[j])]

(* the lines drawn in the components figure: ascending from N div 5 in    *)
(* steps of 10, each the component of its index                           *)
DrawnInStride(lines) ==
    \A m \in 1..Len(lines) :
        /\ lines[m].index = args.n_frequencies \div 5 + 10 * (m - 1)
        /\ lines[m].index \in DisplayIndices(args.n_frequencies)
        /\ lines[m].index \in 0..(args.n_frequencies - 1)
        /\ lines[m].x = args.z
        /\ lines[m].y = SpectralComponent(lines[m].index)

C29_WitnessSmall ==
    /\ Returned("plot_spectral_components")
    /\ args.n_frequencies = 15
    /\ Len(result.components) = 1
    /\ NonZero(result.pulse.y)

----------------------------------------------------------------------------
(* The legacy modules (pulse_animation.py, cavity.py), called by a caller *)
(* that compares them with the refactored library                         *)

(* the coefficient at position n of *k_i, or the default of parameter k_n *)
Star(k_i, n, default) == IF Len(k_i) >= n THEN k_i[n] ELSE default

(* the cubic term left out *)
legacy_k_quadratic(nu, nu_center, k_i) ==
    LET omega   == Mul(TwoPi, nu)
        omega_0 == Mul(TwoPi, nu_center)
        k0      == Star(k_i, 1, One)
        k1      == Star(k_i, 2, Zero)
        k2      == Star(k_i, 3, Zero)
    IN  Add(Add(k0, Term(k1, Sub(omega, omega_0), 1)),
            Term(k2, Sub(omega, omega_0), 2))

(* pulse_animation.k(nu, nu_center, *k_i), k0=1, k1=0, k2=0, k3=0 *)
legacy_k(nu, nu_center, k_i) ==
    LET omega   == Mul(TwoPi, nu)
        omega_0 == Mul(TwoPi, nu_center)
        k0      == Star(k_i, 1, One)
        k1      == Star(k_i, 2, Zero)
        k2      == Star(k_i, 3, Zero)
        k3      == Star(k_i, 4, Zero)
    IN  Add(Add(Add(k0, Term(k1, Sub(omega, omega_0), 1)),
                Term(k2, Sub(omega, omega_0), 2)),
            Term(k3, Sub(omega, omega_0), 3))

(* the default k_i=[1, 5, 0] of sin_sum and of the legacy calc_pulses *)
legacy_k_i_default == <<R(1), R(5), R(0)>>

(* sin_sum raises when its loop runs and k gets more than six positional  *)
(* arguments (TypeError) or z does not broadcast into a row (ValueError)  *)
sin_sum_raises(z, N_frequencies, k_i) ==
    /\ N_frequencies >= 1
    /\ Len(k_i) > 4 \/ ~Is1D(z)

(* pulse_animation.sin_sum with plotting=False, lines 114-147 and return *)
sin_sum(z, t, nu_center, nu_min, N_frequencies, spec_width, k_i) ==
    LET frequencies == Linspace(nu_min, Mul(nu_center, R(2)), N_frequencies)
        spectrum    == gaussian(Len(frequencies), spec_width)
        phi_nu(i)   == Scale(legacy_k(frequencies[i], nu_center, k_i), z)
        E_nu        == [ shape |-> <<Len(frequencies), Len(z)>>,
                         rows |-> [i \in 1..Len(frequencies) |->
                            [j \in 1..Len(z) |->
                               Mul(spectrum[i],
                                   Sin(Sub(Mul(Mul(TwoPi, frequencies[i]), t),
                                           phi_nu(i)[j])))]] ]
    IN  SumAxis0(E_nu)

(* pulse_animation.calc_pulses, lines 220-227 *)
legacy_calc_pulses(z, t_start, t_end, n_steps, nu_center, k_i, spec_width) ==
    LET times == Linspace(t_start, t_end, n_steps)
    IN  [ shape |-> <<n_steps, Len(z)>>,
          rows |-> [i \in 1..Len(times) |->
                      sin_sum(z, times[i], nu_center, nu_min_default,
                              n_frequencies_default, spec_width, k_i)] ]

(* cavity.resonator_modes with plot=False, lines 27-57 and return, in     *)
(* state s of the random source                                           *)
cavity_resonator_modes(t, z, n_modes, random_phases, s) ==
    LET L           == Sub(ArrMax(z), ArrMin(z))
        delta_nu    == Div(c, Mul(R(2), L))
        frequencies == [i \in 1..n_modes |-> Mul(delta_nu, R(i))]
        phases      == IF random_phases = TRUE THEN Uniform200(s, n_modes)
                       ELSE Zeros(n_modes)
        spectrum    == Ones(n_modes)
        omega(i)    == Mul(TwoPi, frequencies[i])
    IN  [ shape |-> <<n_modes, Len(z)>>,
          rows |-> [i \in 1..n_modes |->
                      [j \in 1..Len(z) |->
                         Mul(Mul(spectrum[i],
                                 Sin(Sub(Mul(Mul(R(2), omega(i)), t), phases[i]))),
                             Sin(Mul(Div(omega(i), c), z[j])))]] ]

(* what the caller keeps of a legacy call *)
LegacyCall(name, raised, value) ==
    [ fn |-> name, args |-> args, raised |-> raised,
      result |-> IF raised THEN NoResult ELSE value, rng |-> rng, phases |-> << >> ]

(* sin_sum called with the arguments of the compute_spectral_field call   *)
(* just made; no coefficients passed leaves k_i at its default            *)
CallSinSum ==
    /\ pc \in {"done", "raised"}
    /\ fn = "compute_spectral_field"
    /\ kept = NoCall
    /\ LET k_i == IF args.k_coefficients = None THEN legacy_k_i_default
                  ELSE args.k_coefficients
       IN  kept' = LegacyCall("sin_sum",
                       sin_sum_raises(args.z, args.n_frequencies, k_i),
                       sin_sum(args.z, args.t, args.nu_center, args.nu_min,
                               args.n_frequencies, args.spec_width, k_i))
    /\ UNCHANGED <<pc, fn, args, csf, cp, rm, result, error, rng>>
    /\ UNCHANGED display

(* the legacy calc_pulses called with the arguments of the calc_pulses    *)
(* call just made; it takes no keyword besides its seven parameters       *)
CallLegacyCalcPulses ==
    /\ pc \in {"done", "raised"}
    /\ fn = "calc_pulses"
    /\ kept = NoCall
    /\ LET k_i == IF args.k_i = None THEN legacy_k_i_default ELSE args.k_i
       IN  kept' = LegacyCall("legacy calc_pulses",
                       \/ args.unexpected # {}
                       \/ /\ args.n_steps >= 1
                          /\ sin_sum_raises(args.z, n_frequencies_default, k_i),
                       legacy_calc_pulses(args.z, args.t_start, args.t_end,
                                          args.n_steps, args.nu_center, k_i,
                                          args.spec_width))
    /\ UNCHANGED <<pc, fn, args, csf, cp, rm, result, error, rng>>
    /\ UNCHANGED display

(* the state of the random source when the call just made began *)
SeedOfCall == IF rm.live THEN (rng + RngPeriod - rm.drawn) % RngPeriod ELSE rng

(* the random source is put back to its state before the call just made,  *)
(* np.random.seed, and cavity.resonator_modes is called with the same     *)
(* arguments; z.max() of an empty array raises ValueError                 *)
CallCavityResonatorModes ==
    /\ pc \in {"done", "raised"}
    /\ fn = "resonator_modes"
    /\ kept = NoCall
    /\ kept' = LegacyCall("cavity resonator_modes", Len(args.z) = 0,
                   cavity_resonator_modes(args.t, args.z, args.n_modes,
                                          args.random_phases, SeedOfCall))
    /\ UNCHANGED <<pc, fn, args, csf, cp, rm, result, error, rng>>
    /\ UNCHANGED display

(* the caller has compared the two results and goes on *)
FinishLegacy ==
    /\ pc \in {"done", "raised"}
    /\ kept # NoCall
    /\ pc' = "idle"
    /\ fn' = "none"
    /\ args' = NoResult
    /\ result' = NoResult
    /\ csf' = NoFrame
    /\ cp' = NoFrame
    /\ rm' = NoFrame
    /\ error' = NoError
    /\ kept' = NoCall
    /\ UNCHANGED rng
    /\ UNCHANGED display

NextLegacy ==
    \/ CallComputeSpectralField
    \/ CsfStep
    \/ CsfRaise
    \/ CsfReturn
    \/ CallCalcPulses
    \/ CpStep
    \/ CpAssign
    \/ CpReturn
    \/ CallResonatorModes
    \/ RmStep
    \/ RmReturn
    \/ Seed
    \/ CallSinSum
    \/ CallLegacyCalcPulses
    \/ CallCavityResonatorModes
    \/ FinishLegacy

SpecLegacy == Init /\ [][NextLegacy]_vars

LegacyNames == {"sin_sum", "legacy calc_pulses", "cavity resonator_modes"}

(* both calls made, the refactored one and the legacy one *)
Compared == pc \in {"done", "raised"} /\ kept.fn \in LegacyNames

(* the legacy call gave what the refactored call gave: the same array, or *)
(* both raised                                                            *)
SameOutcome ==
    /\ kept.raised <=> pc = "raised"
    /\ pc = "done" => kept.result = result

(* C27: for the same arguments with at most four dispersion coefficients  *)
(* the legacy functions compute the same arrays as compute_spectral_field, *)
(* calc_pulses and resonator_modes of the refactored library              *)
C27_LegacyComputesTheSame ==
    (Compared /\ pc = "done" /\ ~kept.raised
        /\ (CoefficientsPassed = None \/ Len(CoefficientsPassed) <= 4)) =>
        kept.result = result

(* C27 for one to four coefficients, or none passed: the legacy functions *)
(* and the refactored ones return the same array or both raise; the       *)
(* resonator functions with the random source in the same state           *)
C27_SameFromOneCoefficientOn ==
    (Compared /\ (CoefficientsPassed = None \/ Len(CoefficientsPassed) \in 1..4)) =>
        SameOutcome

C27_WitnessResonator ==
    /\ Compared
    /\ fn = "resonator_modes"
    /\ args.random_phases
    /\ args.n_modes = 2
    /\ pc = "done"
    /\ \A i \in 1..2 : NonZero(result.rows[i])

C27_WitnessPulses ==
    /\ Compared
    /\ fn = "calc_pulses"
    /\ pc = "done"
    /\ args.k_i = <<R(2)>>
    /\ args.n_steps = 2
    /\ NonZero(result.rows[2])

C27_Witness ==
    /\ Compared
    /\ fn = "compute_spectral_field"
    /\ pc = "done"
    /\ args.k_coefficients = <<R(1), R(0), R(1), R(1)>>
    /\ args.n_frequencies = 3
    /\ NonZero(result)
    /\ kept.result = result

====
